---- MODULE Spec2Model ----
(***************************************************************************)
(* A model of the data operation layer of cumulusci/tasks/bulkdata/step.py *)
(* (Bulk API job state parsing and polling, CSV batching, result download, *)
(* backend selection, record selection and the REST composite loader) and  *)
(* of the Snowfakery task of cumulusci/tasks/bulkdata/snowfakery.py        *)
(* (option validation, portions, the run loop and the running totals).     *)
(* Each component is a small state machine over                            *)
(* its own variables; a specification per component starts the component   *)
(* on inputs drawn from bounded sets and leaves the other components idle. *)
(***************************************************************************)
EXTENDS Integers, Sequences, FiniteSets, TLC

VARIABLES
    \* BulkJobMixin._parse_job_state
    xml,              \* the batch list returned by the job's /batch endpoint
    parse_result,     \* the DataOperationJobResult returned
    parse_pc,         \* "call" | "returned"
    \* BulkApiDmlOperation._batch
    records,          \* the input records (each a sequence of fields)
    n,                \* records per batch
    char_limit,       \* character limit of a batch
    batch,            \* the batch being filled (serialized rows, header first)
    current_chars,    \* serialized size of the batch being filled
    yielded,          \* the batches yielded so far, in order
    batch_pos,        \* how many input records the for loop has consumed
    batch_pc,         \* "loop" | "done"
    \* get_dml_operation / get_query_operation
    api_fn,           \* "dml" | "query": which factory is called
    api,              \* the api argument
    operation,        \* the operation argument (dml)
    volume,           \* the volume argument (dml)
    sf_version,       \* context.sf.sf_version
    record_count_response, \* the limits/recordCount response (query)
    api_ret,          \* the class of the returned operation, or the error raised
    api_pc,           \* "call" | "returned"
    \* RestApiDmlOperation
    rest_operation,   \* self.operation
    rest_api_options, \* the api_options passed to __init__
    rest_batch_size,  \* self.api_options["batch_size"]
    rest_records,     \* the records passed to load_records
    rest_pos,         \* how many records iterate_in_chunks has handed out
    chunk,            \* the chunk of the current composite request
    request,          \* the JSON records of the current composite request
    results,          \* self.results
    responses,        \* what the org answered to each composite request, in order
    rest_job_result,  \* self.job_result
    rest_error,       \* the exception load_records raised, if any
    rest_pc,          \* "start" | "loop" | "done" | "raised"
    \* select_records (both backends)
    sel_backend,      \* BULK (BulkApiDmlOperation) | REST (RestApiDmlOperation)
    sel_strategy,     \* the selection strategy of the executor
    sel_sobject,      \* self.sobject
    selection_filter, \* whether self.selection_filter is given
    sel_api_options,  \* the api_options passed to __init__
    sel_batch_size,   \* self.api_options["batch_size"]
    total_num_records, \* the number of load records
    sel_offset,       \* the loop variable offset
    num_records,      \* the local num_records, Unbound before the first iteration
    query_records,    \* the candidate rows gathered so far
    select_responses, \* the ids the select query returned, per batch
    user_responses,   \* the ids the user filter query returned, per batch
    select_results,   \* self.select_results (Bulk) / self.results (REST)
    sel_job_result,   \* self.job_result
    sel_error,        \* the exception select_records raised, if any
    sel_pc,           \* "loop" | "done" | "raised"
    \* generate_user_filter_query / add_limit_offset_to_user_filter
    filter_fn,        \* which of the two functions is called
    filter_clause,    \* the filter_clause argument
    limit_clause,     \* the limit_clause argument, Absent for None
    offset_clause,    \* the offset_clause argument, Absent for None
    filter_ret,       \* the words of the string returned
    filter_pc,        \* "call" | "returned"
    \* PortionGenerator
    portions,         \* the controller: its gap, floor, ceiling, size and progress
    portion_calls,    \* the calls of next_batch_size so far, in order
    \* Snowfakery._run_task
    run_pc,           \* "init" | "template" | "while" | "sleep" | "draining" |
                      \* "done" | "exited" | "raised"
    num_generator_workers, \* the generation workers of the queue manager
    template_sets,    \* self.sets_finished_while_generating_template
    jobs,             \* the tasks in flight: their sets and their stage
    sets_finished,    \* the queue manager's count of sets loaded
    sets_failed,      \* the queue manager's count of sets failed
    upload_status,    \* the local upload_status of _loop
    run_error,        \* the exception _run_task raised, if any
    \* RunningTotals and the result channel
    sobject_counts,   \* self.sobject_counts: the RunningTotals of each sobject
    results_queue,    \* the messages of the workers not yet received
    reports_sent,     \* how many messages the workers have put on the channel
    totals_pc,        \* "returned" | "drain": whether update_running_totals runs
    \* download_file and BulkApiDmlOperation._get_batch_results
    res_batch_ids,    \* self.batch_ids
    res_pos,          \* how many batch ids the for loop has taken
    served,           \* what each download so far came to, and the file it got
    row_pos,          \* how many rows of the current file have been yielded
    temp_files,       \* the files of the temporary directory
    dl_path,          \* the path of the download under way
    res_yielded,      \* the results yielded so far, in order
    res_error,        \* the exception that left the generator, if any
    res_pc,           \* "next" | "fetch" | "body" | "done" | "raised" | "closed"
    \* Snowfakery._validate_options
    val_pc,           \* "call" | "validated" | "raised"
    recipe_exists,    \* whether the recipe option names a file that exists
    loading_rules_option, \* the loading_rules option, as a list
    num_processes,    \* the num_processes option, Absent for None
    serial_mode,      \* the serial_mode option
    rules_files,      \* the loading-rules files on disk: missing, plain or sharded
    shard_configs,    \* how many shard configurations self.shard_configs holds
    val_error,        \* the exception _validate_options raised, if any
    \* BulkJobMixin._wait_for_job
    wait_batches,     \* the batches of the job as the org has them now
    wait_result,      \* the local result of _wait_for_job
    wait_pc,          \* "poll" | "sleep" | "returned"
    \* load_records followed by get_results
    up_api,           \* the backend of the operation
    up_operation,     \* its DataOperationType
    up_records,       \* the records given to load_records
    up_batch_size,    \* api_options["batch_size"]
    up_posted,        \* Bulk: the batches posted so far; REST: the records sent
    up_batch_ids,     \* self.batch_ids
    up_org,           \* the batch the org holds under each batch id
    up_results,       \* self.results of the REST operation
    up_read,          \* how far get_results has got in batch_ids / results
    up_yielded,       \* the results get_results has yielded, in order
    up_pc,            \* "load" | "results" | "done"
    \* get_results after an operation of the REST backend or a select
    got_results,      \* list(get_results())
    got_pc,           \* "wait" | "done"
    \* The job result of a DML operation through its calls
    life_api,         \* the backend of the operation
    life_job_result,  \* self.job_result, NoResult for None
    life_closed,      \* how many times bulk.close_job was called
    life_polls,       \* how many times _wait_for_job was called
    life_calls,       \* the calls made on the operation since start(), in order
    \* The constructors of the DML operations
    heap,             \* the mappings that exist, the caller's api_options first
    given_options,    \* the items of the caller's api_options before any call
    operations        \* the operations built: backend and own api_options

parse_vars == <<xml, parse_result, parse_pc>>
batch_vars == <<records, n, char_limit, batch, current_chars, yielded, batch_pos, batch_pc>>
api_vars == <<api_fn, api, operation, volume, sf_version, record_count_response, api_ret, api_pc>>
rest_vars == <<rest_operation, rest_api_options, rest_batch_size, rest_records, rest_pos,
               chunk, request, results, responses, rest_job_result, rest_error, rest_pc>>
select_vars == <<sel_backend, sel_strategy, sel_sobject, selection_filter, sel_api_options,
                 sel_batch_size, total_num_records, sel_offset, num_records, query_records,
                 select_responses, user_responses, select_results, sel_job_result,
                 sel_error, sel_pc>>
filter_vars == <<filter_fn, filter_clause, limit_clause, offset_clause, filter_ret, filter_pc>>
portion_vars == <<portions, portion_calls>>
run_vars == <<run_pc, num_generator_workers, template_sets, jobs, sets_finished, sets_failed,
              upload_status, run_error>>
totals_vars == <<sobject_counts, results_queue, reports_sent, totals_pc>>
results_vars == <<res_batch_ids, res_pos, served, row_pos, temp_files, dl_path, res_yielded,
                  res_error, res_pc>>
validate_vars == <<val_pc, recipe_exists, loading_rules_option, num_processes, serial_mode,
                   rules_files, shard_configs, val_error>>
wait_vars == <<wait_batches, wait_result, wait_pc>>
construct_vars == <<heap, given_options, operations>>
life_vars == <<life_api, life_job_result, life_closed, life_polls, life_calls>>
tally_vars == <<got_results, got_pc>>
upload_vars == <<up_api, up_operation, up_records, up_batch_size, up_posted, up_batch_ids,
                 up_org, up_results, up_read, up_yielded, up_pc>>
vars == <<parse_vars, batch_vars, api_vars, rest_vars, select_vars, filter_vars,
          portion_vars, results_vars, totals_vars, run_vars, validate_vars, wait_vars,
          upload_vars, tally_vars, life_vars, construct_vars>>

----------------------------------------------------------------------------
(* Shared helpers *)

\* Python's None, kept a string so that it compares with every field value.
NoneV == "<None>"

Min(a, b) == IF a <= b THEN a ELSE b

RECURSIVE SumSeq(_)
SumSeq(s) == IF s = <<>> THEN 0 ELSE Head(s) + SumSeq(Tail(s))

RECURSIVE Flatten(_)
Flatten(ss) == IF ss = <<>> THEN <<>> ELSE Head(ss) \o Flatten(Tail(ss))

\* All sequences over S of length 0..k
SeqUpTo(S, k) == UNION {[1..m -> S] : m \in 0..k}

InSeq(x, s) == \E i \in 1..Len(s) : s[i] = x

----------------------------------------------------------------------------
(* DataOperationStatus, DataOperationJobResult *)

SUCCESS == "Success"
ROW_FAILURE == "Row failure"
JOB_FAILURE == "Job failure"
IN_PROGRESS == "In progress"
ABORTED == "Aborted"

DataOperationJobResult(status, job_errors, records_processed, total_row_errors) ==
    [status |-> status, job_errors |-> job_errors,
     records_processed |-> records_processed, total_row_errors |-> total_row_errors]

NoResult == DataOperationJobResult(NoneV, <<>>, 0, 0)

----------------------------------------------------------------------------
(* BulkJobMixin._parse_job_state *)

MaxBatches == 2
MaxCount == 1

BatchStates == {"Queued", "InProgress", "Completed", "Failed", "Not Processed"}

\* One <batchInfo> element.  The Bulk API gives a stateMessage for a batch
\* that failed or was not processed; it is absent (NoneV) otherwise.
BatchInfos ==
    {b \in [state : BatchStates, stateMessage : {NoneV, "error"},
            numberRecordsFailed : 0..MaxCount, numberRecordsProcessed : 0..MaxCount] :
        (b.stateMessage # NoneV) <=> (b.state \in {"Failed", "Not Processed"})}

RECURSIVE StateMessages(_)
StateMessages(x) ==
    IF x = <<>> THEN <<>>
    ELSE (IF Head(x).stateMessage # NoneV THEN <<Head(x).stateMessage>> ELSE <<>>)
         \o StateMessages(Tail(x))

ParseJobState_PrecedenceSwapped(x) ==
    LET statuses == [i \in 1..Len(x) |-> x[i].state]
        record_failure_count == SumSeq([i \in 1..Len(x) |-> x[i].numberRecordsFailed])
        records_processed_count == SumSeq([i \in 1..Len(x) |-> x[i].numberRecordsProcessed])
    IN  IF InSeq("InProgress", statuses) \/ InSeq("Queued", statuses)
        THEN DataOperationJobResult(IN_PROGRESS, <<>>, records_processed_count, record_failure_count)
        ELSE IF InSeq("Not Processed", statuses)
        THEN DataOperationJobResult(ABORTED, <<>>, records_processed_count, record_failure_count)
        ELSE IF InSeq("Failed", statuses)
        THEN DataOperationJobResult(JOB_FAILURE, StateMessages(x), records_processed_count, record_failure_count)
        ELSE IF record_failure_count # 0
        THEN DataOperationJobResult(ROW_FAILURE, <<>>, records_processed_count, record_failure_count)
        ELSE DataOperationJobResult(SUCCESS, <<>>, records_processed_count, record_failure_count)

ParseJobState(x) ==
    LET statuses == [i \in 1..Len(x) |-> x[i].state]
        state_messages == StateMessages(x)
        record_failure_count == SumSeq([i \in 1..Len(x) |-> x[i].numberRecordsFailed])
        records_processed_count == SumSeq([i \in 1..Len(x) |-> x[i].numberRecordsProcessed])
    IN  IF InSeq("Not Processed", statuses)
        THEN DataOperationJobResult(ABORTED, <<>>, records_processed_count, record_failure_count)
        ELSE IF InSeq("InProgress", statuses) \/ InSeq("Queued", statuses)
        THEN DataOperationJobResult(IN_PROGRESS, <<>>, records_processed_count, record_failure_count)
        ELSE IF InSeq("Failed", statuses)
        THEN DataOperationJobResult(JOB_FAILURE, state_messages, records_processed_count, record_failure_count)
        ELSE IF record_failure_count # 0
        THEN DataOperationJobResult(ROW_FAILURE, <<>>, records_processed_count, record_failure_count)
        ELSE DataOperationJobResult(SUCCESS, <<>>, records_processed_count, record_failure_count)

ParseIdle ==
    /\ xml = <<>>
    /\ parse_result = NoResult
    /\ parse_pc = "idle"

ParseInit ==
    /\ xml \in SeqUpTo(BatchInfos, MaxBatches)
    /\ parse_result = NoResult
    /\ parse_pc = "call"

\* _job_state_from_batches hands the response content to _parse_job_state
JobStateFromBatches ==
    /\ parse_pc = "call"
    /\ parse_result' = ParseJobState(xml)
    /\ parse_pc' = "returned"
    /\ UNCHANGED xml

----------------------------------------------------------------------------
(* BulkJobMixin._wait_for_job, and the batches of the job at the org *)

\* A batch as the job has it when _wait_for_job is called: queued or being
\* processed, nothing counted yet
FreshBatch(state) ==
    [state |-> state, stateMessage |-> NoneV, numberRecordsFailed |-> 0,
     numberRecordsProcessed |-> 0]

\* What a batch can become in one step at the org: a queued batch starts, or
\* is not processed (the job is aborted, or the batch is the original batch of
\* a PK chunking query); a batch in progress completes with its counts, or fails
BatchSuccessors(b) ==
    IF b.state = "Queued"
    THEN {[b EXCEPT !.state = "InProgress"],
          [b EXCEPT !.state = "Not Processed", !.stateMessage = "error"]}
    ELSE IF b.state = "InProgress"
    THEN {[b EXCEPT !.state = "Failed", !.stateMessage = "error"]}
         \cup {[b EXCEPT !.state = "Completed", !.numberRecordsProcessed = p,
                         !.numberRecordsFailed = f] :
                  p \in 0..MaxCount, f \in 0..MaxCount}
    ELSE {}

WaitIdle ==
    /\ wait_pc = "idle"
    /\ wait_batches = <<>>
    /\ wait_result = NoResult

\* _wait_for_job is called on a job that has just been closed
WaitInit ==
    /\ wait_pc = "poll"
    /\ wait_batches \in SeqUpTo({FreshBatch("Queued"), FreshBatch("InProgress")}, MaxBatches)
    /\ wait_result = NoResult

\* The org works on a batch of the job
BatchAdvances ==
    /\ wait_pc \in {"poll", "sleep", "returned"}
    /\ \E i \in 1..Len(wait_batches) :
          \E b \in BatchSuccessors(wait_batches[i]) :
             /\ b.numberRecordsFailed <= b.numberRecordsProcessed
             /\ wait_batches' = [wait_batches EXCEPT ![i] = b]
    /\ UNCHANGED <<wait_pc, wait_result>>

\* The loop of _wait_for_job without its test: the first result is returned
PollJob_ReturnsAtOnce ==
    /\ wait_pc = "poll"
    /\ wait_result' = ParseJobState(wait_batches)
    /\ wait_pc' = "returned"
    /\ UNCHANGED wait_batches

\* One iteration of the loop of _wait_for_job: the job state is derived from
\* the batches, and the loop is left unless the status is IN_PROGRESS
PollJob ==
    /\ wait_pc = "poll"
    /\ wait_result' = ParseJobState(wait_batches)
    /\ wait_pc' = IF ParseJobState(wait_batches).status # IN_PROGRESS
                  THEN "returned" ELSE "sleep"
    /\ UNCHANGED wait_batches

\* time.sleep(10) returns
WakeUp ==
    /\ wait_pc = "sleep"
    /\ wait_pc' = "poll"
    /\ UNCHANGED <<wait_batches, wait_result>>

----------------------------------------------------------------------------
(* BulkApiDmlOperation._serialize_csv_record and _batch *)

MaxRecords == 3
MaxN == 2
DEFAULT_CHAR_LIMIT == 10000000

DQ == "\""

\* A code point that UTF-8 encodes in two bytes (e.g. U+00E9).
TwoByteChar == "U+00E9"

\* encode("utf-8") of one character
Utf8(c) == IF c = TwoByteChar THEN <<"0xC3", "0xA9">> ELSE <<c>>

\* csv.writer(quoting=QUOTE_ALL) on one field: quoted, embedded quotes doubled
QuoteField(f) ==
    <<DQ>> \o Flatten([i \in 1..Len(f) |-> IF f[i] = DQ THEN <<DQ, DQ>> ELSE Utf8(f[i])]) \o <<DQ>>

RECURSIVE JoinFields(_)
JoinFields(qs) ==
    IF qs = <<>> THEN <<>>
    ELSE IF Len(qs) = 1 THEN Head(qs)
    ELSE Head(qs) \o <<",">> \o JoinFields(Tail(qs))

\* The row as bytes: quoted fields joined by commas, ended by \r\n
SerializeCsvRecord(record) ==
    JoinFields([i \in 1..Len(record) |-> QuoteField(record[i])]) \o <<"\r", "\n">>

\* self.fields of the operation (each name a sequence of characters)
BatchFields == << <<"I", "d">>, <<"N", "a", "m", "e">> >>

serialized_csv_fields == SerializeCsvRecord(BatchFields)
len_csv_fields == Len(serialized_csv_fields)

\* The records the input is drawn from: plain, with an embedded quote, with a
\* two-byte character, and with an empty field.
BatchRecordPool ==
    { << <<"1">>, <<"a">> >>,
      << <<"2">>, <<"b", DQ, "c">> >>,
      << <<"3">>, <<TwoByteChar>> >>,
      << <<"4">>, <<>> >> }

\* Limits below the header plus any record, admitting some single records only,
\* admitting one or two records, and the default of the code.
CharLimits ==
    {len_csv_fields + 5, len_csv_fields + 10, len_csv_fields + 12, len_csv_fields + 21,
     DEFAULT_CHAR_LIMIT}

\* "Does the next record put us over the character limit?"
OverCharLimit(serialized_record, chars, limit) ==
    Len(serialized_record) + chars > limit

AtDesiredSize_OffByOne(b, size) == Len(b) - 2 = size

\* "yield batch if we're at desired size; -1 due to first row being field names"
AtDesiredSize(b, size) == Len(b) - 1 = size

HasLeftover_DropsSingle(b) == Len(b) > 2

\* "give back anything leftover"
HasLeftover(b) == Len(b) > 1

BatchIdle ==
    /\ records = <<>>
    /\ n = 0
    /\ char_limit = 0
    /\ batch = <<>>
    /\ current_chars = 0
    /\ yielded = <<>>
    /\ batch_pos = 0
    /\ batch_pc = "idle"

\* State at the first iteration of the generator
BatchInit ==
    /\ records \in SeqUpTo(BatchRecordPool, MaxRecords)
    /\ n \in 1..MaxN
    /\ char_limit \in CharLimits
    /\ batch = <<serialized_csv_fields>>
    /\ current_chars = len_csv_fields
    /\ yielded = <<>>
    /\ batch_pos = 0
    /\ batch_pc = "loop"

\* One iteration of "for record in records"
BatchIterate ==
    /\ batch_pc = "loop"
    /\ batch_pos < Len(records)
    /\ LET serialized_record == SerializeCsvRecord(records[batch_pos + 1])
           over == OverCharLimit(serialized_record, current_chars, char_limit)
           yielded1 == IF over THEN Append(yielded, batch) ELSE yielded
           batch1 == IF over THEN <<serialized_csv_fields>> ELSE batch
           chars1 == IF over THEN len_csv_fields ELSE current_chars
           batch2 == Append(batch1, serialized_record)
           chars2 == chars1 + Len(serialized_record)
           full == AtDesiredSize(batch2, n)
       IN  /\ yielded' = IF full THEN Append(yielded1, batch2) ELSE yielded1
           /\ batch' = IF full THEN <<serialized_csv_fields>> ELSE batch2
           /\ current_chars' = IF full THEN len_csv_fields ELSE chars2
    /\ batch_pos' = batch_pos + 1
    /\ UNCHANGED <<records, n, char_limit, batch_pc>>

\* The input is exhausted: the leftover batch is yielded and the generator ends
BatchFinish ==
    /\ batch_pc = "loop"
    /\ batch_pos = Len(records)
    /\ yielded' = IF HasLeftover(batch) THEN Append(yielded, batch) ELSE yielded
    /\ batch_pc' = "done"
    /\ UNCHANGED <<records, n, char_limit, batch, current_chars, batch_pos>>

\* Serialized size of a yielded batch: the header row plus its data rows
BatchChars(b) == SumSeq([i \in 1..Len(b) |-> Len(b[i])])

\* The data rows of a yielded batch
DataRows(b) == Tail(b)

----------------------------------------------------------------------------
(* get_dml_operation and get_query_operation *)

\* DataApi
BULK == "bulk"
REST == "rest"
SMART == "smart"

\* DataOperationType
INSERT == "insert"
UPDATE == "update"
DELETE == "delete"
HARD_DELETE == "hardDelete"
QUERY == "query"
UPSERT == "upsert"
ETL_UPSERT == "etl_upsert"
SMART_UPSERT == "smart_upsert"
SELECT == "select"

DataOperationType ==
    {INSERT, UPDATE, DELETE, HARD_DELETE, QUERY, UPSERT, ETL_UPSERT, SMART_UPSERT, SELECT}

\* The values the api argument takes: the three members of DataApi, None, and
\* a value that is no member of DataApi
ApiValues == {BULK, REST, SMART, NoneV, "unknown"}

\* "REST Collections requires 42.0": the threshold, in tenths of a version
REST_COLLECTIONS_VERSION == 420
DML_BULK_VOLUME == 2000
QUERY_BULK_COUNT == 2000

\* context.sf.sf_version, as major and minor number of the version string
SfVersions == {[major |-> 40, minor |-> 0], [major |-> 41, minor |-> 9],
               [major |-> 42, minor |-> 0], [major |-> 62, minor |-> 0]}

\* float(context.sf.sf_version), in tenths
Float(v) == v.major * 10 + v.minor

Volumes == {0, 1, DML_BULK_VOLUME - 1, DML_BULK_VOLUME, DML_BULK_VOLUME + 1}

\* The sobject the factory is called for
Sobject == "Account"

\* limits/recordCount responses: a list of {name, count} entries, one at most
\* per sobject name
RecordCountEntries ==
    [name : {Sobject, "Contact"},
     count : {0, QUERY_BULK_COUNT - 1, QUERY_BULK_COUNT, QUERY_BULK_COUNT + 1}]

RecordCountResponses ==
    {r \in SeqUpTo(RecordCountEntries, 2) :
        \A i, j \in 1..Len(r) : i # j => r[i].name # r[j].name}

\* {entry["name"]: entry["count"] for entry in response["sObjects"]}:
\* the count of the last entry with that name; the name is a key iff one exists
InSobjectMap(name, r) == \E i \in 1..Len(r) : r[i].name = name
SobjectMap(name, r) ==
    LET last == CHOOSE i \in 1..Len(r) :
                    r[i].name = name /\ \A j \in (i + 1)..Len(r) : r[j].name # name
    IN  r[last].count

\* "if api_version < 42.0 and api is not DataApi.BULK: api = DataApi.BULK"
VersionOverride(a, version) ==
    IF Float(version) < REST_COLLECTIONS_VERSION /\ a # BULK THEN BULK ELSE a

SmartDmlApi_StrictlyAbove(vol, op) ==
    IF vol > DML_BULK_VOLUME \/ op = HARD_DELETE THEN BULK ELSE REST

\* The choice get_dml_operation makes for SMART and None
SmartDmlApi(vol, op) ==
    IF vol >= DML_BULK_VOLUME \/ op = HARD_DELETE THEN BULK ELSE REST

SmartQueryApi_MissingIsBulk(name, r) ==
    IF ~InSobjectMap(name, r) \/ SobjectMap(name, r) >= QUERY_BULK_COUNT THEN BULK ELSE REST

\* The choice get_query_operation makes for SMART and None
SmartQueryApi(name, r) ==
    IF InSobjectMap(name, r) /\ SobjectMap(name, r) >= QUERY_BULK_COUNT THEN BULK ELSE REST

GetDmlOperation_SmartForAll(a, op, vol, version) ==
    LET api1 == VersionOverride(a, version)
        api2 == IF api1 \in {SMART, NoneV, REST} THEN SmartDmlApi(vol, op) ELSE api1
    IN  IF api2 = BULK THEN "BulkApiDmlOperation"
        ELSE IF api2 = REST THEN "RestApiDmlOperation"
        ELSE "AssertionError"

\* The class get_dml_operation instantiates, or the error it raises
GetDmlOperation(a, op, vol, version) ==
    LET api1 == VersionOverride(a, version)
        api2 == IF api1 \in {SMART, NoneV} THEN SmartDmlApi(vol, op) ELSE api1
    IN  IF api2 = BULK THEN "BulkApiDmlOperation"
        ELSE IF api2 = REST THEN "RestApiDmlOperation"
        ELSE "AssertionError"

\* The class get_query_operation instantiates, or the error it raises
GetQueryOperation(a, name, r, version) ==
    LET api1 == VersionOverride(a, version)
        api2 == IF api1 \in {SMART, NoneV} THEN SmartQueryApi(name, r) ELSE api1
    IN  IF api2 = BULK THEN "BulkApiQueryOperation"
        ELSE IF api2 = REST THEN "RestApiQueryOperation"
        ELSE "AssertionError"

ApiIdle ==
    /\ api_fn = "idle"
    /\ api = NoneV
    /\ operation = NoneV
    /\ volume = 0
    /\ sf_version = [major |-> 0, minor |-> 0]
    /\ record_count_response = <<>>
    /\ api_ret = NoneV
    /\ api_pc = "idle"

ApiInit ==
    /\ api_fn \in {"dml", "query"}
    /\ api \in ApiValues
    /\ sf_version \in SfVersions
    /\ \/ /\ api_fn = "dml"
          /\ operation \in DataOperationType
          /\ volume \in Volumes
          /\ record_count_response = <<>>
       \/ /\ api_fn = "query"
          /\ operation = QUERY
          /\ volume = 0
          /\ record_count_response \in RecordCountResponses
    /\ api_ret = NoneV
    /\ api_pc = "call"

CallGetDmlOperation ==
    /\ api_pc = "call"
    /\ api_fn = "dml"
    /\ api_ret' = GetDmlOperation(api, operation, volume, sf_version)
    /\ api_pc' = "returned"
    /\ UNCHANGED <<api_fn, api, operation, volume, sf_version, record_count_response>>

CallGetQueryOperation ==
    /\ api_pc = "call"
    /\ api_fn = "query"
    /\ api_ret' = GetQueryOperation(api, Sobject, record_count_response, sf_version)
    /\ api_pc' = "returned"
    /\ UNCHANGED <<api_fn, api, operation, volume, sf_version, record_count_response>>

----------------------------------------------------------------------------
(* RestApiDmlOperation: __init__, _record_to_json, load_records *)

MaxRestRecords == 3
DEFAULT_BULK_BATCH_SIZE == 10000
DEFAULT_REST_BATCH_SIZE == 200
MAX_REST_BATCH_SIZE == 200

\* Python's True and False as JSON values
TrueV == "<True>"
FalseV == "<False>"

\* self.fields and self.boolean_fields (from the sobject's describe)
RestFields == <<"Id", "IsActive">>
BooleanFields == <<"IsActive">>

\* The records the input is drawn from, one value per field: present, empty
\* string and None values, and boolean texts that do and do not parse
RestRecordPool ==
    { <<"001", "True">>, <<"002", "false">>, <<"", "">>, <<NoneV, NoneV>>,
      <<"003", "junk">>, <<"", "1">> }

\* api_options as passed by the caller: batch_size absent, 0, or a number
RestApiOptions ==
    { <<>>, [batch_size |-> 0], [batch_size |-> 1], [batch_size |-> 2],
      [batch_size |-> MAX_REST_BATCH_SIZE + 50] }

RestOperations == {INSERT, UPDATE, DELETE, UPSERT, HARD_DELETE}

\* The batch size without the cap of MAX_REST_BATCH_SIZE
EffectiveRestBatchSize_Uncapped(options) ==
    LET given == IF "batch_size" \in DOMAIN options THEN options.batch_size ELSE 0
    IN  IF given # 0 THEN given ELSE DEFAULT_REST_BATCH_SIZE

\* api_options.get("batch_size") or DEFAULT_REST_BATCH_SIZE, capped
EffectiveRestBatchSize(options) ==
    LET given == IF "batch_size" \in DOMAIN options THEN options.batch_size ELSE 0
        size == IF given # 0 THEN given ELSE DEFAULT_REST_BATCH_SIZE
    IN  Min(size, MAX_REST_BATCH_SIZE)

\* str.lower()
Lower(v) == IF v = "True" THEN "true" ELSE IF v = "False" THEN "false" ELSE v

\* cumulusci.core.utils.process_bool_arg: whether it raises TypeError
ProcessBoolArgRaises(v) ==
    /\ v \notin {TrueV, FalseV, NoneV}
    /\ Lower(v) \notin {"yes", "y", "true", "on", "1", "no", "n", "false", "off", "0"}

\* cumulusci.core.utils.process_bool_arg: its value when it does not raise
ProcessBoolArg(v) ==
    IF v \in {TrueV, FalseV} THEN v
    ELSE IF v = NoneV THEN FalseV
    ELSE IF Lower(v) \in {"yes", "y", "true", "on", "1"} THEN TrueV
    ELSE FalseV

\* "x or False"
OrFalse(v) == IF v \in {NoneV, "", FalseV} THEN FalseV ELSE v

\* dict(zip(self.fields, rec))
Zip(fields, rec) ==
    LET m == Min(Len(fields), Len(rec))
    IN  [k \in {fields[i] : i \in 1..m} |->
            rec[CHOOSE i \in 1..m : fields[i] = k /\ \A j \in (i + 1)..m : fields[j] # k]]

\* Whether _record_to_json raises BulkDataException (a boolean that does not parse)
RecordToJsonRaises(rec) ==
    LET result == Zip(RestFields, rec)
    IN  \E i \in 1..Len(BooleanFields) :
            ProcessBoolArgRaises(OrFalse(result[BooleanFields[i]]))

RecordToJson_BooleansUnconverted(op, rec) ==
    LET result == Zip(RestFields, rec)
        kept == IF op = INSERT
                THEN [k \in {f \in DOMAIN result : result[f] # NoneV /\ result[f] # ""} |->
                        result[k]]
                ELSE IF op \in {UPDATE, UPSERT}
                THEN [k \in DOMAIN result |-> IF result[k] # "" THEN result[k] ELSE NoneV]
                ELSE result
    IN  [k \in DOMAIN kept \cup {"attributes"} |->
            IF k = "attributes" THEN "type: " \o Sobject ELSE kept[k]]

\* The JSON object _record_to_json returns when it does not raise
RecordToJson(op, rec) ==
    LET result == Zip(RestFields, rec)
        converted == [k \in DOMAIN result |->
                        IF InSeq(k, BooleanFields)
                        THEN ProcessBoolArg(OrFalse(result[k]))
                        ELSE result[k]]
        kept == IF op = INSERT
                THEN [k \in {f \in DOMAIN converted :
                                converted[f] # NoneV /\ converted[f] # ""} |-> converted[k]]
                ELSE IF op \in {UPDATE, UPSERT}
                THEN [k \in DOMAIN converted |->
                        IF converted[k] # "" THEN converted[k] ELSE NoneV]
                ELSE converted
    IN  [k \in DOMAIN kept \cup {"attributes"} |->
            IF k = "attributes" THEN "type: " \o Sobject ELSE kept[k]]

\* The verb table of load_records
HasMethod(op) == op \in {INSERT, UPDATE, DELETE, UPSERT}

\* cumulusci.tasks.bulkdata.utils.iterate_in_chunks: the chunk after pos records
NextChunk(size, recs, pos) == SubSeq(recs, pos + 1, Min(pos + size, Len(recs)))

\* What the org may answer to a composite request of m records, the first of
\* which is record number pos + 1 of the load: one result per record
CompositeResponses(m, pos) ==
    {[i \in 1..m |-> [id |-> IF ok[i] THEN pos + i ELSE 0, success |-> ok[i]]] :
        ok \in [1..m -> BOOLEAN]}

ExtendResults_Overwrites(res, response) == response

\* self.results.extend(self.sf.restful(...))
ExtendResults(res, response) == res \o response

\* The elements that succeeded counted in the place of those that failed
RowErrors_CountsSuccesses(res) == Cardinality({i \in 1..Len(res) : res[i].success})

RowErrors(res) == Cardinality({i \in 1..Len(res) : ~res[i].success})

\* The job result load_records computes after the last chunk
RestJobResult(res) ==
    LET row_errors == RowErrors(res)
    IN  DataOperationJobResult(IF row_errors = 0 THEN SUCCESS ELSE ROW_FAILURE,
                               <<>>, Len(res), row_errors)

RestIdle ==
    /\ rest_operation = NoneV
    /\ rest_api_options = <<>>
    /\ rest_batch_size = 0
    /\ rest_records = <<>>
    /\ rest_pos = 0
    /\ chunk = <<>>
    /\ request = <<>>
    /\ results = <<>>
    /\ responses = <<>>
    /\ rest_job_result = NoResult
    /\ rest_error = NoneV
    /\ rest_pc = "idle"

\* A RestApiDmlOperation after __init__, about to load rest_records
RestInit ==
    /\ rest_operation \in RestOperations
    /\ rest_api_options \in RestApiOptions
    /\ rest_batch_size = EffectiveRestBatchSize(rest_api_options)
    /\ rest_records \in SeqUpTo(RestRecordPool, MaxRestRecords)
    /\ rest_pos = 0
    /\ chunk = <<>>
    /\ request = <<>>
    /\ results = <<>>
    /\ responses = <<>>
    /\ rest_job_result = NoResult
    /\ rest_error = NoneV
    /\ rest_pc = "start"

\* load_records up to its loop: self.results = [] and the verb lookup
RestLoadStart ==
    /\ rest_pc = "start"
    /\ results' = <<>>
    /\ IF HasMethod(rest_operation)
       THEN rest_pc' = "loop" /\ UNCHANGED rest_error
       ELSE rest_pc' = "raised" /\ rest_error' = "KeyError"
    /\ UNCHANGED <<rest_operation, rest_api_options, rest_batch_size, rest_records, rest_pos,
                   chunk, request, responses, rest_job_result>>

\* One iteration of the loop over the chunks: build the request and send it
RestLoadChunk ==
    /\ rest_pc = "loop"
    /\ rest_pos < Len(rest_records)
    /\ LET c == NextChunk(rest_batch_size, rest_records, rest_pos)
           json == [i \in 1..Len(c) |-> RecordToJson(rest_operation, c[i])]
       IN  /\ chunk' = c
           /\ IF \E i \in 1..Len(c) : RecordToJsonRaises(c[i])
              THEN /\ rest_pc' = "raised"
                   /\ rest_error' = "BulkDataException"
                   /\ UNCHANGED <<request, results, responses, rest_pos>>
              ELSE IF rest_operation = DELETE /\ \E i \in 1..Len(c) : json[i]["Id"] = NoneV
              THEN \* ",".join over an Id that is None
                   /\ rest_pc' = "raised"
                   /\ rest_error' = "TypeError"
                   /\ UNCHANGED <<request, results, responses, rest_pos>>
              ELSE /\ request' = IF rest_operation = DELETE THEN <<>> ELSE json
                   /\ \E response \in CompositeResponses(Len(c), rest_pos) :
                        /\ results' = ExtendResults(results, response)
                        /\ responses' = Append(responses, response)
                   /\ rest_pos' = rest_pos + Len(c)
                   /\ UNCHANGED <<rest_pc, rest_error>>
    /\ UNCHANGED <<rest_operation, rest_api_options, rest_batch_size, rest_records,
                   rest_job_result>>

\* After the last chunk: the job result of the whole operation
RestLoadFinish ==
    /\ rest_pc = "loop"
    /\ rest_pos = Len(rest_records)
    /\ rest_job_result' = RestJobResult(results)
    /\ rest_pc' = "done"
    /\ UNCHANGED <<rest_operation, rest_api_options, rest_batch_size, rest_records, rest_pos,
                   chunk, request, results, responses, rest_error>>

----------------------------------------------------------------------------
(* select_records of BulkApiDmlOperation and RestApiDmlOperation,           *)
(* SelectOperationExecutor.select_post_process                               *)

MaxSelectRecords == 3

\* num_records before its first assignment in the loop
Unbound == -1

\* SelectStrategy
STANDARD == "standard"
SIMILARITY == "similarity"
RANDOM == "random"
SelectStrategy == {STANDARD, SIMILARITY, RANDOM}

Sobjects == {"Account", "Contact"}

\* The ids of the rows the org can return, and the value of their other field
OrgIds == {"001", "002"}
OrgName == "n"

SelectBackends == {BULK, REST}

\* api_options as passed by the caller of a select operation
SelectApiOptions == { <<>>, [batch_size |-> 1], [batch_size |-> 2] }

\* api_options.get("batch_size") or DEFAULT_BULK_BATCH_SIZE
EffectiveBulkBatchSize(options) ==
    LET given == IF "batch_size" \in DOMAIN options THEN options.batch_size ELSE 0
    IN  IF given # 0 THEN given ELSE DEFAULT_BULK_BATCH_SIZE

\* query_fields of select_generate_query: the Id alone, or the Id and the
\* fields of the step for the similarity strategy
QueryFields(strategy) == IF strategy = SIMILARITY THEN <<"Id", "Name">> ELSE <<"Id">>

\* query_fields.index("Id")
IdIndex(query_fields) == CHOOSE i \in 1..Len(query_fields) :
    query_fields[i] = "Id" /\ \A j \in 1..(i - 1) : query_fields[j] # "Id"

\* A row as returned for query_fields
QueryRow(query_fields, id) ==
    [i \in 1..Len(query_fields) |-> IF query_fields[i] = "Id" THEN id ELSE OrgName]

\* What the org may answer to a query with LIMIT limit: at most limit rows,
\* no id twice
QueryIdLists(limit) ==
    { ids \in SeqUpTo(OrgIds, Min(limit, Cardinality(OrgIds))) :
        \A i, j \in 1..Len(ids) : i # j => ids[i] # ids[j] }

\* Every select row handed over, whatever the user query returned
IntersectInUserOrder_KeepsAll(user_query_ids, select_query_records, query_fields) ==
    select_query_records

\* id_to_record_map looked up in the order of user_query_ids
IntersectInUserOrder(user_query_ids, select_query_records, query_fields) ==
    LET k == IdIndex(query_fields)
        Known(id) == \E r \in 1..Len(select_query_records) : select_query_records[r][k] = id
        \* a dict keeps the last record of a key
        Record(id) == select_query_records[
            CHOOSE r \in 1..Len(select_query_records) :
                /\ select_query_records[r][k] = id
                /\ \A q \in (r + 1)..Len(select_query_records) :
                      select_query_records[q][k] # id]
    IN  [i \in 1..Len(SelectSeq(user_query_ids, Known)) |->
            Record(SelectSeq(user_query_ids, Known)[i])]

\* The error message of a select without candidates
NoRecordsFound(sobject) ==
    IF sobject = "Account" THEN "No records found for Account in the target org."
    ELSE "No records found for Contact in the target org."

SelectAssignment(id) == [id |-> id, success |-> TRUE, created |-> FALSE]

\* select_post_process: the (assignments, error) pairs it can return.  STANDARD
\* and RANDOM cycle through the candidates; SIMILARITY gives each load record
\* its nearest candidate, which is some candidate.
SelectPostProcess(strategy, load_count, candidates, count, sobject) ==
    IF candidates = <<>> THEN { <<(<<>>), NoRecordsFound(sobject)>> }
    ELSE IF strategy = SIMILARITY
    THEN { << [i \in 1..load_count |-> SelectAssignment(candidates[nearest[i]][1])], NoneV >> :
              nearest \in [1..load_count -> 1..Len(candidates)] }
    ELSE { << [i \in 1..count |->
                 SelectAssignment(candidates[((i - 1) % Len(candidates)) + 1][1])], NoneV >> }

\* The job result select_records sets from the assignments and the error
SelectJobResult(selected, error_message) ==
    DataOperationJobResult(IF Len(selected) # 0 THEN SUCCESS ELSE JOB_FAILURE,
                           IF error_message # NoneV THEN <<error_message>> ELSE <<>>,
                           Len(selected), 0)

SelectIdle ==
    /\ sel_backend = NoneV
    /\ sel_strategy = NoneV
    /\ sel_sobject = NoneV
    /\ selection_filter = FALSE
    /\ sel_api_options = <<>>
    /\ sel_batch_size = 0
    /\ total_num_records = 0
    /\ sel_offset = 0
    /\ num_records = Unbound
    /\ query_records = <<>>
    /\ select_responses = <<>>
    /\ user_responses = <<>>
    /\ select_results = <<>>
    /\ sel_job_result = NoResult
    /\ sel_error = NoneV
    /\ sel_pc = "idle"

\* An operation of either backend after __init__, about to select for
\* total_num_records load records
SelectInit ==
    /\ sel_backend \in SelectBackends
    /\ sel_strategy \in SelectStrategy
    /\ sel_sobject \in Sobjects
    /\ selection_filter \in BOOLEAN
    /\ sel_api_options \in SelectApiOptions
    /\ sel_batch_size = IF sel_backend = BULK THEN EffectiveBulkBatchSize(sel_api_options)
                        ELSE EffectiveRestBatchSize(sel_api_options)
    /\ total_num_records \in 0..MaxSelectRecords
    /\ sel_offset = 0
    /\ num_records = Unbound
    /\ query_records = <<>>
    /\ select_responses = <<>>
    /\ user_responses = <<>>
    /\ select_results = <<>>
    /\ sel_job_result = NoResult
    /\ sel_error = NoneV
    /\ sel_pc = "loop"

\* One iteration of the loop over the offsets: the select query and, with a
\* selection filter, the user query, and the candidates they add
SelectQueryBatch ==
    /\ sel_pc = "loop"
    /\ sel_offset < total_num_records
    /\ LET count == Min(sel_batch_size, total_num_records - sel_offset)
           query_fields == QueryFields(sel_strategy)
       IN  /\ num_records' = count
           /\ \E select_ids \in QueryIdLists(count) :
                LET select_query_records ==
                        [i \in 1..Len(select_ids) |-> QueryRow(query_fields, select_ids[i])]
                IN  IF selection_filter
                    THEN \E user_query_ids \in QueryIdLists(count), ok \in BOOLEAN :
                           IF sel_backend = REST /\ ~ok
                           THEN \* a sub-response of the composite request is not 200
                                /\ sel_pc' = "raised"
                                /\ sel_error' = "SOQLQueryException"
                                /\ UNCHANGED <<query_records, select_responses,
                                               user_responses, sel_offset>>
                           ELSE /\ ok
                                /\ query_records' = query_records \o
                                      IntersectInUserOrder(user_query_ids,
                                                           select_query_records, query_fields)
                                /\ select_responses' = Append(select_responses, select_ids)
                                /\ user_responses' = Append(user_responses, user_query_ids)
                                /\ sel_offset' = sel_offset + sel_batch_size
                                /\ UNCHANGED <<sel_pc, sel_error>>
                    ELSE /\ query_records' = query_records \o select_query_records
                         /\ select_responses' = Append(select_responses, select_ids)
                         /\ sel_offset' = sel_offset + sel_batch_size
                         /\ UNCHANGED <<user_responses, sel_pc, sel_error>>
    /\ UNCHANGED <<sel_backend, sel_strategy, sel_sobject, selection_filter, sel_api_options,
                   sel_batch_size, total_num_records, select_results, sel_job_result>>

\* After the loop: select_post_process and the job result.  The Bulk backend
\* passes num_records, the size of the last batch; the REST backend passes
\* total_num_records.
SelectFinish ==
    /\ sel_pc = "loop"
    /\ sel_offset >= total_num_records
    /\ IF sel_backend = BULK /\ num_records = Unbound
       THEN \* num_records is read before any assignment
            /\ sel_pc' = "raised"
            /\ sel_error' = "UnboundLocalError"
            /\ UNCHANGED <<select_results, sel_job_result>>
       ELSE \E returned \in SelectPostProcess(sel_strategy, total_num_records, query_records,
                                IF sel_backend = BULK THEN num_records ELSE total_num_records,
                                sel_sobject) :
              LET selected == IF returned[2] = NoneV THEN returned[1] ELSE <<>>
              IN  /\ select_results' = selected
                  /\ sel_job_result' = SelectJobResult(selected, returned[2])
                  /\ sel_pc' = "done"
                  /\ UNCHANGED sel_error
    /\ UNCHANGED <<sel_backend, sel_strategy, sel_sobject, selection_filter, sel_api_options,
                   sel_batch_size, total_num_records, sel_offset, num_records, query_records,
                   select_responses, user_responses>>

----------------------------------------------------------------------------
(* generate_user_filter_query, add_limit_offset_to_user_filter               *)
(* A clause is its words in order (toks) and whether whitespace leads it.    *)

MaxClause == 3

\* None where an integer is expected
Absent == -1

\* The decimal numerals of the model, the numeral of k at position k + 1
Numerals == <<"0", "1", "2", "3", "4", "5", "6", "7", "8", "9", "10", "11", "12">>

\* \d+
IsNumeral(tok) == InSeq(tok, Numerals)

\* int(match.group(1))
IntOf(tok) == CHOOSE k \in 0..(Len(Numerals) - 1) : Numerals[k + 1] = tok

\* f"{limit_clause}"
StrOf(k) == Numerals[k + 1]

\* re.IGNORECASE on the two keywords
Upper(tok) ==
    IF tok \in {"LIMIT", "limit", "LiMiT"} THEN "LIMIT"
    ELSE IF tok \in {"OFFSET", "offset", "oFfSeT"} THEN "OFFSET"
    ELSE tok

\* The filter clauses a caller may pass
FilterClauses ==
    { [lead |-> l, toks |-> t] : l \in BOOLEAN,
        t \in { <<"WHERE", "x">>,
                <<"WHERE", "x", "LIMIT", "2">>,
                <<"WHERE", "x", "OFFSET", "1">>,
                <<"WHERE", "x", "LIMIT", "2", "OFFSET", "1">>,
                <<"WHERE", "x", "LiMiT", "3", "oFfSeT", "2">>,
                <<"WHERE", "x", "OFFSET", "2", "limit", "1">>,
                <<"LIMIT", "2">>,
                <<"OFFSET", "1">>,
                <<"ORDER", "BY", "x", "LIMIT", "1">> } }

\* limit_clause and offset_clause as passed: None or a number
ClauseArgs == {Absent} \cup 0..MaxClause

\* re.search(r"KW\s+(\d+)", ...): the position of the first match in toks, or 0
SearchClause(kw, toks) ==
    LET hits == {i \in 1..(Len(toks) - 1) : Upper(toks[i]) = kw /\ IsNumeral(toks[i + 1])}
    IN  IF hits = {} THEN 0 ELSE CHOOSE i \in hits : \A j \in hits : i <= j

\* The number of the first KW clause of toks, Absent without one
ExistingClause(kw, toks) ==
    IF SearchClause(kw, toks) = 0 THEN Absent ELSE IntOf(toks[SearchClause(kw, toks) + 1])

\* The requested limit alone, whatever the filter holds
MergeLimit_RequestedOnly(existing, requested) == requested

\* limit_clause after the "if existing_limit_match" block
MergeLimit(existing, requested) ==
    IF existing # Absent
    THEN IF requested # Absent THEN Min(existing, requested) ELSE existing
    ELSE requested

\* offset_clause after the "if existing_offset_match" block
MergeOffset(existing, requested) ==
    IF existing # Absent
    THEN IF requested # Absent THEN existing + requested ELSE existing
    ELSE requested

\* re.sub(r"\s+KW\s+\d+\s*", " ", ...).strip() from word i on; spaced says
\* whether whitespace not taken by an earlier match precedes word i
RECURSIVE RemoveClause(_, _, _, _)
RemoveClause(kw, toks, i, spaced) ==
    IF i > Len(toks) THEN <<>>
    ELSE IF spaced /\ Upper(toks[i]) = kw /\ i < Len(toks) /\ IsNumeral(toks[i + 1])
    THEN RemoveClause(kw, toks, i + 2, FALSE)
    ELSE <<toks[i]>> \o RemoveClause(kw, toks, i + 1, TRUE)

\* The " LIMIT n" and " OFFSET n" suffixes
ClauseSuffix(limit, offset) ==
    (IF limit # Absent THEN <<"LIMIT", StrOf(limit)>> ELSE <<>>)
    \o (IF offset # Absent THEN <<"OFFSET", StrOf(offset)>> ELSE <<>>)

\* generate_user_filter_query: the words of the query it returns
GenerateUserFilterQuery(filter, sobject, fields, limit, offset) ==
    LET merged_limit == MergeLimit(ExistingClause("LIMIT", filter.toks), limit)
        merged_offset == MergeOffset(ExistingClause("OFFSET", filter.toks), offset)
        without_offset == RemoveClause("OFFSET", filter.toks, 1, filter.lead)
        without_both == RemoveClause("LIMIT", without_offset, 1, FALSE)
    IN  <<"SELECT">> \o fields \o <<"FROM", sobject>> \o without_both
        \o ClauseSuffix(merged_limit, merged_offset)

\* Every "KW n" clause taken out of toks
RECURSIVE StripClauses(_)
StripClauses(toks) ==
    IF toks = <<>> THEN <<>>
    ELSE IF Len(toks) >= 2 /\ Upper(toks[1]) \in {"LIMIT", "OFFSET"} /\ IsNumeral(toks[2])
    THEN StripClauses(SubSeq(toks, 3, Len(toks)))
    ELSE <<toks[1]>> \o StripClauses(Tail(toks))

\* add_limit_offset_to_user_filter: the words of the merged clause
AddLimitOffsetToUserFilter(filter, limit, offset) ==
    LET limits == {IntOf(filter.toks[i + 1]) : i \in
                     {j \in 1..(Len(filter.toks) - 1) :
                        Upper(filter.toks[j]) = "LIMIT" /\ IsNumeral(filter.toks[j + 1])}}
        offsets == {IntOf(filter.toks[i + 1]) : i \in
                     {j \in 1..(Len(filter.toks) - 1) :
                        Upper(filter.toks[j]) = "OFFSET" /\ IsNumeral(filter.toks[j + 1])}}
        existing_limit == IF limits = {} THEN Absent ELSE CHOOSE x \in limits : TRUE
        existing_offset == IF offsets = {} THEN Absent ELSE CHOOSE x \in offsets : TRUE
        merged_limit == IF existing_limit = Absent THEN limit
                        ELSE IF limit = Absent THEN existing_limit
                        ELSE Min(existing_limit, limit)
        merged_offset == IF existing_offset = Absent THEN offset
                         ELSE IF offset = Absent THEN existing_offset
                         ELSE existing_offset + offset
    IN  StripClauses(filter.toks) \o ClauseSuffix(merged_limit, merged_offset)

FilterIdle ==
    /\ filter_fn = NoneV
    /\ filter_clause = [lead |-> FALSE, toks |-> <<>>]
    /\ limit_clause = Absent
    /\ offset_clause = Absent
    /\ filter_ret = <<>>
    /\ filter_pc = "idle"

\* A call of one of the two functions, about to be made
FilterInit ==
    /\ filter_fn \in {"generate_user_filter_query", "add_limit_offset_to_user_filter"}
    /\ filter_clause \in FilterClauses
    /\ limit_clause \in ClauseArgs
    /\ offset_clause \in ClauseArgs
    /\ filter_ret = <<>>
    /\ filter_pc = "call"

CallGenerateUserFilterQuery ==
    /\ filter_pc = "call"
    /\ filter_fn = "generate_user_filter_query"
    /\ filter_ret' = GenerateUserFilterQuery(filter_clause, Sobject, <<"Id">>,
                                             limit_clause, offset_clause)
    /\ filter_pc' = "returned"
    /\ UNCHANGED <<filter_fn, filter_clause, limit_clause, offset_clause>>

CallAddLimitOffsetToUserFilter ==
    /\ filter_pc = "call"
    /\ filter_fn = "add_limit_offset_to_user_filter"
    /\ filter_ret' = AddLimitOffsetToUserFilter(filter_clause, limit_clause, offset_clause)
    /\ filter_pc' = "returned"
    /\ UNCHANGED <<filter_fn, filter_clause, limit_clause, offset_clause>>

----------------------------------------------------------------------------
(* download_file, and the result stream of a Bulk DML job:                  *)
(* BulkApiDmlOperation._get_batch_results and _parse_batch_results           *)

MaxResultBatches == 2
MaxResultRows == 2

\* self.batch_ids is drawn from the prefixes of this list
BatchIdPool == <<"751A", "751B", "751C", "751D">>

\* The name mkstemp gives the temporary file of the k-th download
TempPath(k) == <<"/tmp/tmp1", "/tmp/tmp2", "/tmp/tmp3", "/tmp/tmp4">>[k]

\* A file of the temporary directory that no download has created
OtherFile == "/tmp/other"

\* How far download_file gets before the file can be read: mkstemp fails,
\* requests.get raises, raise_for_status raises, a chunk cannot be read or
\* written, or the file is downloaded and opened
DownloadOutcomes == {"mkstemp fails", "get raises", "status raises", "write raises", "ok"}

\* The rows of a result file after its header: Id, Success, Created, Error
ResultRowPool ==
    { <<"001", "true", "true", "">>,
      <<"", "false", "false", "REQUIRED_FIELD_MISSING">>,
      <<"003", "true", "false">>,
      <<"004">>,
      <<"005", "junk", "false", "">> }

\* The result files the org can serve: with or without the header row
ResultFiles ==
    {[header |-> TRUE, rows |-> rows] : rows \in SeqUpTo(ResultRowPool, MaxResultRows)}
    \cup {[header |-> FALSE, rows |-> <<>>]}

NoFile == [header |-> FALSE, rows |-> <<>>]

\* DataOperationResult
DataOperationResult(id, success, error, created) ==
    [id |-> id, success |-> success, error |-> error, created |-> created]

\* Whether the body of the for loop of _parse_batch_results raises on a row: an
\* index out of range, or a boolean that does not parse
ParseRowRaises(row) ==
    IF Len(row) < 2 THEN TRUE
    ELSE IF ProcessBoolArgRaises(row[2]) THEN TRUE
    ELSE IF Len(row) < 3 THEN TRUE
    ELSE IF ProcessBoolArgRaises(row[3]) THEN TRUE
    ELSE ProcessBoolArg(row[2]) = FalseV /\ Len(row) < 4

\* The DataOperationResult _parse_batch_results yields for a row
ParseRow(row) ==
    LET success == ProcessBoolArg(row[2])
        created == ProcessBoolArg(row[3])
    IN  DataOperationResult(IF success = TrueV THEN row[1] ELSE NoneV,
                            success,
                            IF success # TrueV THEN row[4] ELSE NoneV,
                            created)

\* The finally clause of download_file left out
Unlink_Skipped(files, path) == files

\* pathlib.Path(path).unlink() in the finally clause of download_file
Unlink(files, path) == files \ {path}

\* The exception that leaves _get_batch_results
NoError == [type |-> NoneV, batch_id |-> NoneV, cause |-> NoneV]
BulkDataExceptionFor(batch_id, cause) ==
    [type |-> "BulkDataException", batch_id |-> batch_id, cause |-> cause]

\* The except clause of _get_batch_results left out: the failure propagates as
\* it is
WrapFailure_Propagates(batch_id, cause) ==
    [type |-> cause, batch_id |-> NoneV, cause |-> cause]

\* except Exception as e: raise BulkDataException(...batch_id...)
WrapFailure(batch_id, cause) == BulkDataExceptionFor(batch_id, cause)

\* The batch the for loop is at, and its file
CurrentBatchId == res_batch_ids[res_pos]
CurrentFile == served[res_pos].file

ResultsIdle ==
    /\ res_pc = "idle"
    /\ res_batch_ids = <<>>
    /\ res_pos = 0
    /\ served = <<>>
    /\ row_pos = 0
    /\ temp_files = {}
    /\ dl_path = NoneV
    /\ res_yielded = <<>>
    /\ res_error = NoError

\* get_results() is called on a DML operation whose job has run
ResultsInit ==
    /\ res_pc = "next"
    /\ \E k \in 0..MaxResultBatches : res_batch_ids = SubSeq(BatchIdPool, 1, k)
    /\ res_pos = 0
    /\ served = <<>>
    /\ row_pos = 0
    /\ temp_files = {OtherFile}
    /\ dl_path = NoneV
    /\ res_yielded = <<>>
    /\ res_error = NoError

\* The for loop takes the next batch id and enters download_file:
\* tempfile.mkstemp, which creates the file or raises (path is then unbound in
\* the finally clause)
Mkstemp ==
    /\ res_pc = "next"
    /\ res_pos < Len(res_batch_ids)
    /\ res_pos' = res_pos + 1
    /\ row_pos' = 0
    /\ \/ /\ dl_path' = TempPath(res_pos + 1)
          /\ temp_files' = temp_files \cup {TempPath(res_pos + 1)}
          /\ res_pc' = "fetch"
          /\ UNCHANGED <<served, res_error>>
       \/ /\ served' = Append(served, [outcome |-> "mkstemp fails", file |-> NoFile])
          /\ res_error' = WrapFailure(res_batch_ids[res_pos + 1], "UnboundLocalError")
          /\ res_pc' = "raised"
          /\ UNCHANGED <<dl_path, temp_files>>
    /\ UNCHANGED <<res_batch_ids, res_yielded>>

\* download_file from requests.get to the yield: the download succeeds and
\* the with-body starts, or it raises and the finally clause runs
Fetch ==
    /\ res_pc = "fetch"
    /\ \E outcome \in DownloadOutcomes \ {"mkstemp fails"} :
          IF outcome = "ok"
          THEN /\ \E file \in ResultFiles :
                     served' = Append(served, [outcome |-> outcome, file |-> file])
               /\ res_pc' = "body"
               /\ UNCHANGED <<temp_files, dl_path, res_error>>
          ELSE /\ served' = Append(served, [outcome |-> outcome, file |-> NoFile])
               /\ temp_files' = Unlink(temp_files, dl_path)
               /\ dl_path' = NoneV
               /\ res_error' = WrapFailure(CurrentBatchId, outcome)
               /\ res_pc' = "raised"
    /\ UNCHANGED <<res_batch_ids, res_pos, row_pos, res_yielded>>

\* _parse_batch_results yields the result of the next row
YieldResult ==
    /\ res_pc = "body"
    /\ CurrentFile.header
    /\ row_pos < Len(CurrentFile.rows)
    /\ ~ParseRowRaises(CurrentFile.rows[row_pos + 1])
    /\ res_yielded' = Append(res_yielded, ParseRow(CurrentFile.rows[row_pos + 1]))
    /\ row_pos' = row_pos + 1
    /\ UNCHANGED <<res_pc, res_batch_ids, res_pos, served, temp_files, dl_path, res_error>>

\* _parse_batch_results raises inside the with-body: no header row to skip,
\* or a row that does not parse; download_file removes the file
ParseFails ==
    /\ res_pc = "body"
    /\ \/ ~CurrentFile.header /\ row_pos = 0
       \/ /\ CurrentFile.header
          /\ row_pos < Len(CurrentFile.rows)
          /\ ParseRowRaises(CurrentFile.rows[row_pos + 1])
    /\ temp_files' = Unlink(temp_files, dl_path)
    /\ dl_path' = NoneV
    /\ res_error' = WrapFailure(CurrentBatchId, "parse raises")
    /\ res_pc' = "raised"
    /\ UNCHANGED <<res_batch_ids, res_pos, served, row_pos, res_yielded>>

\* The rows of the file are exhausted: the with-body ends, download_file
\* removes the file, the for loop goes on
BatchExhausted ==
    /\ res_pc = "body"
    /\ CurrentFile.header
    /\ row_pos = Len(CurrentFile.rows)
    /\ temp_files' = Unlink(temp_files, dl_path)
    /\ dl_path' = NoneV
    /\ res_pc' = "next"
    /\ UNCHANGED <<res_batch_ids, res_pos, served, row_pos, res_yielded, res_error>>

\* The consumer closes the generator while it is suspended at a yield of the
\* with-body: GeneratorExit runs the finally clause
GeneratorClose ==
    /\ res_pc = "body"
    /\ row_pos >= 1
    /\ temp_files' = Unlink(temp_files, dl_path)
    /\ dl_path' = NoneV
    /\ res_pc' = "closed"
    /\ UNCHANGED <<res_batch_ids, res_pos, served, row_pos, res_yielded, res_error>>

\* The for loop has handled every batch id
ResultsFinish ==
    /\ res_pc = "next"
    /\ res_pos = Len(res_batch_ids)
    /\ res_pc' = "done"
    /\ UNCHANGED <<res_batch_ids, res_pos, served, row_pos, temp_files, dl_path,
                   res_yielded, res_error>>

----------------------------------------------------------------------------
(* RunningTotals and the result channel: update_running_totals and          *)
(* update_running_totals_from_load_step_results of snowfakery.py            *)

MaxReports == 2
MaxStepRecords == 1

\* RunningTotals(): errors = 0, successes = 0
RunningTotals == [successes |-> 0, errors |-> 0]

\* self.sobject_counts = defaultdict(RunningTotals)
NoCounts == [s \in Sobjects |-> RunningTotals]

\* One entry of results["step_results"]
StepResult(sobject, records_processed, total_row_errors) ==
    [sobject |-> sobject, records_processed |-> records_processed,
     total_row_errors |-> total_row_errors]

\* The step results a load step can report: the rows in error are among the
\* records processed
StepResults ==
    {StepResult(s, pe[1], pe[2]) :
        s \in Sobjects,
        pe \in {x \in (0..MaxStepRecords) \X (0..MaxStepRecords) : x[2] <= x[1]}}

\* A message of the result channel: {"results": ...}, {"error": ...}, or
\* anything else
ResultsReport(step_results) == [kind |-> "results", step_results |-> step_results]
ErrorReport == [kind |-> "error", step_results |-> <<>>]
UnexpectedReport == [kind |-> "unexpected", step_results |-> <<>>]

\* The messages the workers can put on the channel
Reports ==
    {ResultsReport(<<r>>) : r \in StepResults}
    \cup {ResultsReport(<<StepResult("Account", MaxStepRecords, 0),
                          StepResult("Contact", MaxStepRecords, MaxStepRecords),
                          StepResult("Account", MaxStepRecords, MaxStepRecords)>>)}
    \cup {ErrorReport, UnexpectedReport}

\* The body of the for loop, with the subtraction of the row errors left out
UpdateFromStepResult_ProcessedAsSuccesses(counts, result) ==
    [counts EXCEPT ![result.sobject] =
        [errors |-> @.errors + result.total_row_errors,
         successes |-> @.successes + result.records_processed]]

\* The body of the for loop of update_running_totals_from_load_step_results
UpdateFromStepResult(counts, result) ==
    [counts EXCEPT ![result.sobject] =
        [errors |-> @.errors + result.total_row_errors,
         successes |-> @.successes + result.records_processed
                                   - result.total_row_errors]]

\* update_running_totals_from_load_step_results
RECURSIVE UpdateRunningTotalsFromLoadStepResults(_, _)
UpdateRunningTotalsFromLoadStepResults(counts, step_results) ==
    IF step_results = <<>> THEN counts
    ELSE UpdateRunningTotalsFromLoadStepResults(
             UpdateFromStepResult(counts, Head(step_results)), Tail(step_results))

\* One iteration of update_running_totals on a message received
ConsumeReport(counts, report) ==
    IF report.kind = "results"
    THEN UpdateRunningTotalsFromLoadStepResults(counts, report.step_results)
    ELSE counts

\* update_running_totals leaving its loop after the first message, the rest of
\* the channel discarded
UpdateRunningTotals_FirstMessageOnly(counts, queue) ==
    IF queue = <<>> THEN counts ELSE ConsumeReport(counts, Head(queue))

\* update_running_totals on a channel no worker writes to meanwhile
RECURSIVE UpdateRunningTotals(_, _)
UpdateRunningTotals(counts, queue) ==
    IF queue = <<>> THEN counts
    ELSE UpdateRunningTotals(ConsumeReport(counts, Head(queue)), Tail(queue))

TotalsIdle ==
    /\ totals_pc = "idle"
    /\ sobject_counts = NoCounts
    /\ results_queue = <<>>
    /\ reports_sent = 0

\* The coordinator after setup(), outside update_running_totals
TotalsInit ==
    /\ totals_pc = "returned"
    /\ sobject_counts = NoCounts
    /\ results_queue = <<>>
    /\ reports_sent = 0

\* A worker puts a message on the channel
ResultsReportPut ==
    /\ totals_pc \in {"returned", "drain"}
    /\ reports_sent < MaxReports
    /\ \E r \in Reports : results_queue' = Append(results_queue, r)
    /\ reports_sent' = reports_sent + 1
    /\ UNCHANGED <<totals_pc, sobject_counts>>

\* update_running_totals is called
CallUpdateRunningTotals ==
    /\ totals_pc = "returned"
    /\ totals_pc' = "drain"
    /\ UNCHANGED <<sobject_counts, results_queue, reports_sent>>

\* get_results_report() returns a message: one iteration of the while loop
GetResultsReport ==
    /\ totals_pc = "drain"
    /\ results_queue # <<>>
    /\ sobject_counts' = ConsumeReport(sobject_counts, Head(results_queue))
    /\ results_queue' = Tail(results_queue)
    /\ UNCHANGED <<totals_pc, reports_sent>>

\* get_results_report() finds the channel empty and waits for a message
ReceiveEmpty_Blocks ==
    /\ totals_pc = "drain"
    /\ results_queue = <<>>
    /\ FALSE
    /\ UNCHANGED <<totals_pc, sobject_counts, results_queue, reports_sent>>

\* get_results_report() raises Empty: update_running_totals returns
ReceiveEmpty ==
    /\ totals_pc = "drain"
    /\ results_queue = <<>>
    /\ totals_pc' = "returned"
    /\ UNCHANGED <<sobject_counts, results_queue, reports_sent>>

----------------------------------------------------------------------------
(* PortionGenerator, and the run loop of snowfakery.py: _run_task, _loop,    *)
(* _report_status, finish, with the work of the queue manager's workers      *)

MaxGapThousands == 20
MaxWorkers == 2
MIN_PORTION_SIZE == 2000
MAX_PORTION_SIZE == 250000
ERROR_THRESHOLD == 0

\* The fixed factor by which the portion size grows
GrowthFactor == 2

\* PortionGenerator.__init__: the size starts at the floor
PortionGenerator(gap, min_batch_size, max_batch_size) ==
    [gap |-> gap, min_batch_size |-> min_batch_size, max_batch_size |-> max_batch_size,
     current_size |-> min_batch_size, progress |-> 0]

\* The part of the target not handed out yet
Remaining(p) == p.gap - p.progress

\* next_batch_size: the size it returns
NextBatchSize(p) == Min(p.current_size, Remaining(p))

\* next_batch_size: the controller after the call
AfterNextBatchSize(p) ==
    [p EXCEPT !.progress = @ + NextBatchSize(p),
              !.current_size = Min(@ * GrowthFactor, p.max_batch_size)]

\* done(total)
PortionsDone(p, total) == total >= p.gap

\* The floor and the ceiling passed in each other's place
RunPortions_SwappedBounds(gap) == PortionGenerator(gap, MAX_PORTION_SIZE, MIN_PORTION_SIZE)

\* Twice the floor passed as the floor
RunPortions_FloorDoubled(gap) ==
    PortionGenerator(gap, MIN_PORTION_SIZE + MIN_PORTION_SIZE, MAX_PORTION_SIZE)

\* portions = PortionGenerator(self.run_until.gap, MIN_PORTION_SIZE, MAX_PORTION_SIZE)
RunPortions(gap) == PortionGenerator(gap, MIN_PORTION_SIZE, MAX_PORTION_SIZE)

\* What one call of next_batch_size saw and returned
PortionCall(p) ==
    [result |-> NextBatchSize(p), remaining |-> Remaining(p), current |-> p.current_size]

\* The target gaps of a controller on its own
PortionGaps ==
    {1, MIN_PORTION_SIZE - 1, MIN_PORTION_SIZE + 1}
    \cup {k * 1000 : k \in 1..MaxGapThousands}
    \cup {k * MAX_PORTION_SIZE : k \in 1..4}

PortionIdle ==
    /\ portions = PortionGenerator(0, 0, 0)
    /\ portion_calls = <<>>

PortionInit ==
    /\ \E gap \in PortionGaps : portions = RunPortions(gap)
    /\ portion_calls = <<>>

\* A call of next_batch_size while work remains
CallNextBatchSize ==
    /\ Remaining(portions) > 0
    /\ portion_calls' = Append(portion_calls, PortionCall(portions))
    /\ portions' = AfterNextBatchSize(portions)

\* self.run_until.gap of a run; 0 when the target is already met
RunGaps == {0, 1, 4, MIN_PORTION_SIZE, 5000, 7000}

\* sets_finished_while_generating_template: 1, or the record count of the
\* target sobject in the template batch
TemplateSets == {1, 3, MIN_PORTION_SIZE + 500, MAX_PORTION_SIZE + 2}

\* run_until.nothing_to_do
NothingToDo(gap) == gap = 0

\* queue_manager.get_upload_status(): the sets at each stage
QueueManagerStatus(js, finished, failed) ==
    LET Sets(stage) == SumSeq([i \in 1..Len(js) |->
                                  IF js[i].stage = stage THEN js[i].size ELSE 0])
    IN  [sets_queued_to_be_generated |-> 0,
         sets_being_generated |-> Sets("generating"),
         sets_queued_for_loading |-> 0,
         sets_being_loaded |-> Sets("loading"),
         sets_finished |-> finished,
         sets_failed |-> failed]

\* The sets of the template batch counted twice
GetUploadStatus_TemplateTwice(js, finished, failed, template) ==
    [QueueManagerStatus(js, finished, failed) EXCEPT !.sets_finished = @ + template + template]

\* get_upload_status: the queue manager's status with the sets of the template
\* batch added to sets_finished
GetUploadStatus(js, finished, failed, template) ==
    [QueueManagerStatus(js, finished, failed) EXCEPT !.sets_finished = @ + template]

\* UploadStatus.total_in_flight
TotalInFlight(s) ==
    s.sets_queued_to_be_generated + s.sets_being_generated
    + s.sets_queued_for_loading + s.sets_being_loaded

\* The sets in flight alone
TotalSetsWorkingOnOrUploaded_InFlightOnly(s) == TotalInFlight(s)

\* UploadStatus.total_sets_working_on_or_uploaded
TotalSetsWorkingOnOrUploaded(s) == TotalInFlight(s) + s.sets_finished

\* upload_status.sets_failed > ERROR_THRESHOLD
ErrorsExceedThreshold(s) == s.sets_failed > ERROR_THRESHOLD

\* The generation workers without a task
FreeWorkers(js, workers) ==
    workers - Cardinality({i \in 1..Len(js) : js[i].stage = "generating"})

\* tick that submits no task
Submit_NothingSubmitted(p, calls, js, free) ==
    [portions |-> p, calls |-> calls, jobs |-> js]

\* tick: a generation task, sized by the controller, for every free worker
\* while work remains
RECURSIVE Submit(_, _, _, _)
Submit(p, calls, js, free) ==
    IF free <= 0 \/ Remaining(p) <= 0
    THEN [portions |-> p, calls |-> calls, jobs |-> js]
    ELSE Submit(AfterNextBatchSize(p), Append(calls, PortionCall(p)),
                Append(js, [size |-> NextBatchSize(p), stage |-> "generating"]), free - 1)

\* queue_manager.check_finished()
CheckFinished(js) == js = <<>>

\* js without its i-th job
RemoveJob(js, i) == SubSeq(js, 1, i - 1) \o SubSeq(js, i + 1, Len(js))

NoStatus == QueueManagerStatus(<<>>, 0, 0)

RunIdle ==
    /\ run_pc = "idle"
    /\ num_generator_workers = 0
    /\ template_sets = 0
    /\ jobs = <<>>
    /\ sets_finished = 0
    /\ sets_failed = 0
    /\ upload_status = NoStatus
    /\ run_error = NoneV

\* _run_task after setup(), the creation of portions and configure_queues
RunInit ==
    /\ run_pc = "init"
    /\ \E gap \in RunGaps : portions = RunPortions(gap)
    /\ portion_calls = <<>>
    /\ num_generator_workers \in 1..MaxWorkers
    /\ template_sets = 0
    /\ jobs = <<>>
    /\ sets_finished = 0
    /\ sets_failed = 0
    /\ upload_status = NoStatus
    /\ run_error = NoneV
    /\ TotalsIdle

\* _run_task without the early return on nothing_to_do
RunStart_NoEarlyReturn ==
    /\ run_pc = "init"
    /\ run_pc' = "template"
    /\ UNCHANGED <<portions, portion_calls, num_generator_workers, template_sets, jobs,
                   sets_finished, sets_failed, upload_status, run_error, totals_vars>>

\* The nothing_to_do test of _run_task
RunStart ==
    /\ run_pc = "init"
    /\ run_pc' = IF NothingToDo(portions.gap) THEN "exited" ELSE "template"
    /\ UNCHANGED <<portions, portion_calls, num_generator_workers, template_sets, jobs,
                   sets_finished, sets_failed, upload_status, run_error, totals_vars>>

\* The load results of the template batch: its records of the target sobject
TemplateStepResults(t) == <<StepResult("Account", t, 0)>>

\* _generate_and_load_initial_batch, and the first upload status of _loop
GenerateAndLoadInitialBatch ==
    /\ run_pc = "template"
    /\ \E t \in TemplateSets :
          /\ sobject_counts' = UpdateRunningTotalsFromLoadStepResults(
                                   sobject_counts, TemplateStepResults(t))
          /\ template_sets' = t
          /\ upload_status' = GetUploadStatus(jobs, sets_finished, sets_failed, t)
    /\ run_pc' = "while"
    /\ UNCHANGED <<portions, portion_calls, num_generator_workers, jobs, sets_finished,
                   sets_failed, run_error, results_queue, reports_sent, totals_pc>>

\* The body of the while loop of _loop up to the sleep: queue_manager.tick and
\* update_running_totals
Tick ==
    /\ run_pc = "while"
    /\ ~PortionsDone(portions, TotalSetsWorkingOnOrUploaded(upload_status))
    /\ LET after == Submit(portions, portion_calls, jobs,
                           FreeWorkers(jobs, num_generator_workers))
       IN  /\ portions' = after.portions
           /\ portion_calls' = after.calls
           /\ jobs' = after.jobs
    /\ sobject_counts' = UpdateRunningTotals(sobject_counts, results_queue)
    /\ results_queue' = <<>>
    /\ run_pc' = "sleep"
    /\ UNCHANGED <<num_generator_workers, template_sets, sets_finished, sets_failed,
                   upload_status, run_error, reports_sent, totals_pc>>

\* _report_status after the sleep: the new upload status, and the exception
\* when sets have failed
ReportStatus ==
    /\ run_pc = "sleep"
    /\ LET status == GetUploadStatus(jobs, sets_finished, sets_failed, template_sets)
       IN  IF ErrorsExceedThreshold(status)
           THEN /\ run_pc' = "raised"
                /\ run_error' = "BulkDataException"
                /\ UNCHANGED upload_status
           ELSE /\ upload_status' = status
                /\ run_pc' = "while"
                /\ UNCHANGED run_error
    /\ UNCHANGED <<portions, portion_calls, num_generator_workers, template_sets, jobs,
                   sets_finished, sets_failed, totals_vars>>

\* The while loop of _loop ends, finish() begins
LoopExit ==
    /\ run_pc = "while"
    /\ PortionsDone(portions, TotalSetsWorkingOnOrUploaded(upload_status))
    /\ run_pc' = "draining"
    /\ UNCHANGED <<portions, portion_calls, num_generator_workers, template_sets, jobs,
                   sets_finished, sets_failed, upload_status, run_error, totals_vars>>

\* finish() without its wait for check_finished()
Finish_WithoutWaiting ==
    /\ run_pc = "draining"
    /\ sobject_counts' = UpdateRunningTotals(sobject_counts, results_queue)
    /\ results_queue' = <<>>
    /\ run_pc' = "done"
    /\ UNCHANGED <<portions, portion_calls, num_generator_workers, template_sets, jobs,
                   sets_finished, sets_failed, upload_status, run_error, reports_sent,
                   totals_pc>>

\* finish() once check_finished() is true: the failures are logged and the
\* results reported
Finish ==
    /\ run_pc = "draining"
    /\ CheckFinished(jobs)
    /\ sobject_counts' = UpdateRunningTotals(sobject_counts, results_queue)
    /\ results_queue' = <<>>
    /\ run_pc' = "done"
    /\ UNCHANGED <<portions, portion_calls, num_generator_workers, template_sets, jobs,
                   sets_finished, sets_failed, upload_status, run_error, reports_sent,
                   totals_pc>>

\* A worker has generated the sets of a task: they go on to be loaded
GenerationDone ==
    /\ \E i \in 1..Len(jobs) :
          /\ jobs[i].stage = "generating"
          /\ jobs' = [jobs EXCEPT ![i].stage = "loading"]
    /\ UNCHANGED <<run_pc, portions, portion_calls, num_generator_workers, template_sets,
                   sets_finished, sets_failed, upload_status, run_error, totals_vars>>

\* A worker has loaded the sets of a task and reports the results of the load
LoadDone ==
    /\ \E i \in 1..Len(jobs) :
          /\ jobs[i].stage = "loading"
          /\ jobs' = RemoveJob(jobs, i)
          /\ sets_finished' = sets_finished + jobs[i].size
          /\ results_queue' = Append(results_queue,
                                     ResultsReport(<<StepResult("Account", jobs[i].size, 0)>>))
    /\ reports_sent' = reports_sent + 1
    /\ UNCHANGED <<run_pc, portions, portion_calls, num_generator_workers, template_sets,
                   sets_failed, upload_status, run_error, sobject_counts, totals_pc>>

\* The generation or the load of a task has failed and is reported as an error
JobFailed ==
    /\ \E i \in 1..Len(jobs) :
          /\ jobs' = RemoveJob(jobs, i)
          /\ sets_failed' = sets_failed + jobs[i].size
    /\ results_queue' = Append(results_queue, ErrorReport)
    /\ reports_sent' = reports_sent + 1
    /\ UNCHANGED <<run_pc, portions, portion_calls, num_generator_workers, template_sets,
                   sets_finished, upload_status, run_error, sobject_counts, totals_pc>>

----------------------------------------------------------------------------
(* Snowfakery._validate_options and read_sharding_declarations, and the     *)
(* start of _run_task on the options validated                              *)

MaxRulesFiles == 2

\* The declarations a loading-rules file with shard declarations holds
ShardsPerFile == 2

\* infer_load_file_path(recipe): <recipe>.load.yml
ImplicitRulesFile == "recipe.load.yml"

\* The loading-rules files of the project, and what a file can be
RulesFiles == {"a.load.yml", "b.load.yml", ImplicitRulesFile}
FileStates == {"missing", "plain", "sharded"}

\* The entries of the loading_rules option: files, and the empty text
LoadingRulesOptions == SeqUpTo(RulesFiles \cup {""}, MaxRulesFiles)

\* The num_processes option: absent, or a number of workers
NumProcessesOptions == {Absent} \cup 1..MaxWorkers

\* The exceptions of _validate_options
CannotFindRecipe == "TaskOptionsError: Cannot find recipe"
MultipleShardDeclarations == "TaskOptionsError: Multiple shard declarations"
RulesFileNotFound == "FileNotFoundError"
SerialModeNotImplemented == "NotImplementedError"

\* [Path(path) for path in loading_rules if path]
NonEmptyPaths(paths) == SelectSeq(paths, LAMBDA path : path # "")

\* list(dict.fromkeys(...)) left out: the files are read as listed
Uniqify_KeepsDuplicates(files) == files

\* list(dict.fromkeys(loading_rules_files)): uniqify without losing order
RECURSIVE Uniqify(_)
Uniqify(files) ==
    IF files = <<>> THEN <<>>
    ELSE LET front == Uniqify(SubSeq(files, 1, Len(files) - 1))
             last == files[Len(files)]
         IN  IF InSeq(last, front) THEN front ELSE Append(front, last)

\* The files read_sharding_declarations reads: the explicit ones, then the
\* implicit one if it exists
FilesToRead(loading_rules_files, fs) ==
    Uniqify(IF fs[ImplicitRulesFile] # "missing"
            THEN Append(loading_rules_files, ImplicitRulesFile)
            ELSE loading_rules_files)

\* read_sharding_declarations: the exception it raises, or the number of
\* shard declarations it returns
ReadShardingDeclarations(loading_rules_files, fs) ==
    LET files == FilesToRead(loading_rules_files, fs)
        rules_lists == SelectSeq(files, LAMBDA file : fs[file] = "sharded")
    IN  IF \E i \in 1..Len(files) : fs[files[i]] = "missing"
        THEN [error |-> RulesFileNotFound, shard_decls |-> 0]
        ELSE IF Len(rules_lists) > 1
        THEN [error |-> MultipleShardDeclarations, shard_decls |-> 0]
        ELSE IF Len(rules_lists) = 1
        THEN [error |-> NoneV, shard_decls |-> ShardsPerFile]
        ELSE [error |-> NoneV, shard_decls |-> 0]

\* _validate_options: the exception it raises, or the number of shard
\* configurations it sets
ValidateOptionsResult(exists, loading_rules, serial, fs) ==
    IF ~exists THEN [error |-> CannotFindRecipe, shard_configs |-> 0]
    ELSE LET read == ReadShardingDeclarations(NonEmptyPaths(loading_rules), fs)
         IN  IF read.error # NoneV THEN [error |-> read.error, shard_configs |-> 0]
             ELSE IF read.shard_decls > 0
             THEN [error |-> NoneV, shard_configs |-> read.shard_decls]
             ELSE IF serial
             THEN [error |-> SerialModeNotImplemented, shard_configs |-> 0]
             ELSE [error |-> NoneV, shard_configs |-> 1]

ValidateIdle ==
    /\ val_pc = "idle"
    /\ recipe_exists = FALSE
    /\ loading_rules_option = <<>>
    /\ num_processes = Absent
    /\ serial_mode = FALSE
    /\ rules_files = [f \in RulesFiles |-> "missing"]
    /\ shard_configs = 0
    /\ val_error = NoneV

\* The task is constructed on its options: _validate_options is about to run;
\* nothing of the run exists
ValidateInit ==
    /\ val_pc = "call"
    /\ recipe_exists \in BOOLEAN
    /\ loading_rules_option \in LoadingRulesOptions
    /\ num_processes \in NumProcessesOptions
    /\ serial_mode \in BOOLEAN
    /\ rules_files \in [RulesFiles -> FileStates]
    /\ shard_configs = 0
    /\ val_error = NoneV
    /\ PortionIdle
    /\ TotalsIdle
    /\ RunIdle

\* _validate_options
ValidateOptions ==
    /\ val_pc = "call"
    /\ LET r == ValidateOptionsResult(recipe_exists, loading_rules_option, serial_mode,
                                      rules_files)
       IN  /\ val_error' = r.error
           /\ shard_configs' = r.shard_configs
           /\ val_pc' = IF r.error # NoneV THEN "raised" ELSE "validated"
    /\ UNCHANGED <<recipe_exists, loading_rules_option, num_processes, serial_mode,
                   rules_files, portion_vars, totals_vars, run_vars>>

\* The task validated is run: _run_task calls setup(), creates the portion
\* controller and configures the queues with the workers asked for, or with
\* one per physical core
CallRunTask ==
    /\ val_pc = "validated"
    /\ run_pc = "idle"
    /\ run_pc' = "init"
    /\ \E gap \in RunGaps : portions' = RunPortions(gap)
    /\ IF num_processes # Absent
       THEN num_generator_workers' = num_processes
       ELSE num_generator_workers' \in 1..MaxWorkers
    /\ totals_pc' = "idle"
    /\ UNCHANGED <<val_pc, recipe_exists, loading_rules_option, num_processes, serial_mode,
                   rules_files, shard_configs, val_error, portion_calls, template_sets,
                   jobs, sets_finished, sets_failed, upload_status, run_error,
                   sobject_counts, results_queue, reports_sent>>

----------------------------------------------------------------------------
(* The records of a load and their results: load_records and get_results of *)
(* BulkApiDmlOperation and of RestApiDmlOperation, with the org that        *)
(* answers every row it is sent, in the order of the rows                   *)

MaxUploadRecords == 3

\* The batches _batch yields from recs on, with batch and chars as they stand
RECURSIVE BatchLoop(_, _, _, _, _)
BatchLoop(recs, size, limit, b, chars) ==
    IF recs = <<>> THEN (IF HasLeftover(b) THEN <<b>> ELSE <<>>)
    ELSE LET serialized_record == SerializeCsvRecord(Head(recs))
             over == OverCharLimit(serialized_record, chars, limit)
             batch1 == IF over THEN <<serialized_csv_fields>> ELSE b
             chars1 == IF over THEN len_csv_fields ELSE chars
             batch2 == Append(batch1, serialized_record)
             chars2 == chars1 + Len(serialized_record)
             full == AtDesiredSize(batch2, size)
         IN  (IF over THEN <<b>> ELSE <<>>)
             \o (IF full THEN <<batch2>> ELSE <<>>)
             \o BatchLoop(Tail(recs), size, limit,
                          IF full THEN <<serialized_csv_fields>> ELSE batch2,
                          IF full THEN len_csv_fields ELSE chars2)

\* list(self._batch(records, batch_size)), char_limit left at its default
BatchesOf(recs, size) ==
    BatchLoop(recs, size, DEFAULT_CHAR_LIMIT, <<serialized_csv_fields>>, len_csv_fields)

\* The ids the org can give to the batches of a job
BatchIdSet == {BatchIdPool[i] : i \in 1..Len(BatchIdPool)}

\* Sequences over S without repetition, of length 0..k
InjectiveSeqs(S, k) ==
    {s \in SeqUpTo(S, k) : \A i, j \in 1..Len(s) : i # j => s[i] # s[j]}

\* The records of a REST load: those of the pool that _record_to_json accepts
\* and tells apart
UploadRestPool == { <<"001", "True">>, <<"002", "false">>, <<"", "1">> }

\* The operations of a load
UploadOperations == {INSERT, UPDATE}

\* What load_records sends the org for a record: its row of the CSV batch, or
\* its JSON object
Sent(a, op, rec) == IF a = BULK THEN SerializeCsvRecord(rec) ELSE RecordToJson(op, rec)

\* The org's answers to the rows it was sent, one per row in the order of the
\* rows; each answer is kept with the row it answers
OrgAnswers(rows) ==
    {[i \in 1..Len(rows) |-> [of |-> rows[i], success |-> ok[i]]] :
        ok \in [1..Len(rows) -> BOOLEAN]}

\* batch_ids with the id of the batch just posted put first
AppendBatchId_Prepends(batch_ids, id) == <<id>> \o batch_ids

\* self.batch_ids.append(self.bulk.post_batch(...))
AppendBatchId(batch_ids, id) == Append(batch_ids, id)

NoBatches == [id \in BatchIdSet |-> <<>>]

UploadIdle ==
    /\ up_api = NoneV
    /\ up_operation = NoneV
    /\ up_records = <<>>
    /\ up_batch_size = 0
    /\ up_posted = 0
    /\ up_batch_ids = <<>>
    /\ up_org = NoBatches
    /\ up_results = <<>>
    /\ up_read = 0
    /\ up_yielded = <<>>
    /\ up_pc = "idle"

\* An operation after start(), about to load up_records
UploadInit ==
    /\ up_api \in {BULK, REST}
    /\ up_operation \in UploadOperations
    /\ up_records \in InjectiveSeqs(IF up_api = BULK THEN BatchRecordPool ELSE UploadRestPool,
                                    MaxUploadRecords)
    /\ up_batch_size \in 1..MaxN
    /\ up_posted = 0
    /\ up_batch_ids = <<>>
    /\ up_org = NoBatches
    /\ up_results = <<>>
    /\ up_read = 0
    /\ up_yielded = <<>>
    /\ up_pc = "load"

\* BulkApiDmlOperation.load_records: one iteration of its loop, the org gives
\* the batch an id of its choice
BulkPostBatch ==
    /\ up_pc = "load"
    /\ up_api = BULK
    /\ up_posted < Len(BatchesOf(up_records, up_batch_size))
    /\ \E id \in BatchIdSet :
          /\ ~InSeq(id, up_batch_ids)
          /\ up_batch_ids' = AppendBatchId(up_batch_ids, id)
          /\ up_org' = [up_org EXCEPT
                           ![id] = BatchesOf(up_records, up_batch_size)[up_posted + 1]]
    /\ up_posted' = up_posted + 1
    /\ UNCHANGED <<up_api, up_operation, up_records, up_batch_size, up_results, up_read,
                   up_yielded, up_pc>>

\* RestApiDmlOperation.load_records: one iteration of its loop
RestSendChunk ==
    /\ up_pc = "load"
    /\ up_api = REST
    /\ up_posted < Len(up_records)
    /\ LET c == NextChunk(up_batch_size, up_records, up_posted)
           json == [i \in 1..Len(c) |-> RecordToJson(up_operation, c[i])]
       IN  /\ \E response \in OrgAnswers(json) :
                 up_results' = ExtendResults(up_results, response)
           /\ up_posted' = up_posted + Len(c)
    /\ UNCHANGED <<up_api, up_operation, up_records, up_batch_size, up_batch_ids, up_org,
                   up_read, up_yielded, up_pc>>

\* load_records returns, the operation is ended and get_results is called
LoadRecordsReturns ==
    /\ up_pc = "load"
    /\ IF up_api = BULK
       THEN up_posted = Len(BatchesOf(up_records, up_batch_size))
       ELSE up_posted = Len(up_records)
    /\ up_pc' = "results"
    /\ UNCHANGED <<up_api, up_operation, up_records, up_batch_size, up_posted, up_batch_ids,
                   up_org, up_results, up_read, up_yielded>>

\* _get_batch_results: one iteration of "for batch_id in self.batch_ids", the
\* result file of the batch downloaded and its rows yielded
BulkYieldBatch ==
    /\ up_pc = "results"
    /\ up_api = BULK
    /\ up_read < Len(up_batch_ids)
    /\ \E rows \in OrgAnswers(DataRows(up_org[up_batch_ids[up_read + 1]])) :
          up_yielded' = up_yielded \o rows
    /\ up_read' = up_read + 1
    /\ UNCHANGED <<up_api, up_operation, up_records, up_batch_size, up_posted, up_batch_ids,
                   up_org, up_results, up_pc>>

\* RestApiDmlOperation.get_results: the next element of self.results
RestYieldResult ==
    /\ up_pc = "results"
    /\ up_api = REST
    /\ up_read < Len(up_results)
    /\ up_yielded' = Append(up_yielded, up_results[up_read + 1])
    /\ up_read' = up_read + 1
    /\ UNCHANGED <<up_api, up_operation, up_records, up_batch_size, up_posted, up_batch_ids,
                   up_org, up_results, up_pc>>

\* get_results is exhausted
GetResultsEnds ==
    /\ up_pc = "results"
    /\ up_read = Len(IF up_api = BULK THEN up_batch_ids ELSE up_results)
    /\ up_pc' = "done"
    /\ UNCHANGED <<up_api, up_operation, up_records, up_batch_size, up_posted, up_batch_ids,
                   up_org, up_results, up_read, up_yielded>>

----------------------------------------------------------------------------
(* get_results after load_records of the REST backend, and after            *)
(* select_records of either backend                                         *)

\* bool as process_bool_arg is given it
BoolV(b) == IF b THEN TrueV ELSE FalseV

\* _convert of RestApiDmlOperation.get_results on an element of self.results
\* without "errors"
RestConvert(op, res) ==
    DataOperationResult(res.id, res.success, "",
                        IF op = INSERT THEN TrueV
                        ELSE IF op = UPDATE THEN FalseV
                        ELSE IF "created" \in DOMAIN res THEN BoolV(res.created)
                        ELSE NoneV)

\* The body of the loop of _get_query_results on a row of self.select_results
QueryResult(row) ==
    LET success == ProcessBoolArg(BoolV(row.success)) = TrueV
    IN  DataOperationResult(IF success THEN row.id ELSE "", success, "",
                            ProcessBoolArg(BoolV(row.created)))

\* The branch of BulkApiDmlOperation.get_results
GetResultsBranch(op) == IF op = QUERY THEN "_get_query_results" ELSE "_get_batch_results"

\* The operation type of a select step
SelectOperationType == QUERY

TallyIdle ==
    /\ got_results = <<>>
    /\ got_pc = "idle"

\* An operation about to load on the REST backend, or about to select on
\* either backend; get_results has not been called
TallyInit ==
    /\ got_results = <<>>
    /\ got_pc = "wait"
    /\ \/ RestInit /\ SelectIdle
       \/ SelectInit /\ RestIdle

\* load_records of the REST backend, step by step
RestLoadRecords ==
    /\ got_pc = "wait"
    /\ RestLoadStart \/ RestLoadChunk \/ RestLoadFinish
    /\ UNCHANGED <<select_vars, got_results, got_pc>>

\* select_records of either backend, step by step
SelectRecords ==
    /\ got_pc = "wait"
    /\ SelectQueryBatch \/ SelectFinish
    /\ UNCHANGED <<rest_vars, got_results, got_pc>>

\* list(get_results()) of the REST backend once load_records has returned
RestGetResults ==
    /\ got_pc = "wait"
    /\ rest_pc = "done"
    /\ got_results' = [i \in 1..Len(results) |-> RestConvert(rest_operation, results[i])]
    /\ got_pc' = "done"
    /\ UNCHANGED <<rest_vars, select_vars>>

\* list(get_results()) of either backend once select_records has returned
SelectGetResults ==
    /\ got_pc = "wait"
    /\ sel_pc = "done"
    /\ got_results' =
          IF sel_backend = REST
          THEN [i \in 1..Len(select_results) |->
                   RestConvert(SelectOperationType, select_results[i])]
          ELSE IF GetResultsBranch(SelectOperationType) = "_get_query_results"
          THEN [i \in 1..Len(select_results) |-> QueryResult(select_results[i])]
          ELSE <<>>
    /\ got_pc' = "done"
    /\ UNCHANGED <<rest_vars, select_vars>>

----------------------------------------------------------------------------
(* The job result of a DML operation through the calls made on it: start,   *)
(* load_records, select_records, end and get_results                        *)

MaxCalls == 3

\* The calls a caller can make on an operation once it is started
OperationCalls == {"load_records", "select_records", "end", "get_results"}

\* What select_records can set: records selected, or no candidate found
SelectOutcomes ==
    {SelectJobResult(<<SelectAssignment("001")>>, NoneV),
     SelectJobResult(<<SelectAssignment("001"), SelectAssignment("002")>>, NoneV),
     SelectJobResult(<<>>, NoRecordsFound("Account"))}

\* What load_records of the REST backend can set
RestLoadOutcomes ==
    {RestJobResult(res) : res \in {<<>>, <<[id |-> 1, success |-> TRUE]>>,
                                   <<[id |-> 1, success |-> TRUE], [id |-> 0, success |-> FALSE]>>}}

\* What _wait_for_job can return
PollOutcomes ==
    {DataOperationJobResult(SUCCESS, <<>>, 2, 0),
     DataOperationJobResult(ROW_FAILURE, <<>>, 2, 1),
     DataOperationJobResult(ABORTED, <<>>, 0, 0)}

\* "if not self.job_result": None, a job result being a tuple of four fields
EndPolls(job_result) == job_result = NoResult

\* end() polling whether or not a job result is set
EndJobResult_AlwaysPolls(job_result, polled) == polled

\* self.job_result after BulkApiDmlOperation.end()
EndJobResult(job_result, polled) == IF EndPolls(job_result) THEN polled ELSE job_result

LifeIdle ==
    /\ life_api = NoneV
    /\ life_job_result = NoResult
    /\ life_closed = 0
    /\ life_polls = 0
    /\ life_calls = <<>>

\* A DML operation of either backend after __init__ and start()
LifeInit ==
    /\ life_api \in {BULK, REST}
    /\ life_job_result = NoResult
    /\ life_closed = 0
    /\ life_polls = 0
    /\ life_calls = <<>>

\* load_records: the REST backend sets the job result, the Bulk backend posts
\* its batches and sets none
CallLoadRecords ==
    /\ Len(life_calls) < MaxCalls
    /\ life_calls' = Append(life_calls, "load_records")
    /\ IF life_api = REST
       THEN life_job_result' \in RestLoadOutcomes
       ELSE UNCHANGED life_job_result
    /\ UNCHANGED <<life_api, life_closed, life_polls>>

\* select_records of either backend
CallSelectRecords ==
    /\ Len(life_calls) < MaxCalls
    /\ life_calls' = Append(life_calls, "select_records")
    /\ life_job_result' \in SelectOutcomes
    /\ UNCHANGED <<life_api, life_closed, life_polls>>

\* end(): BulkApiDmlOperation closes the job and polls it if no job result is
\* set; the REST backend inherits the empty end() of BaseDmlOperation
CallEnd ==
    /\ Len(life_calls) < MaxCalls
    /\ life_calls' = Append(life_calls, "end")
    /\ IF life_api = BULK
       THEN /\ life_closed' = life_closed + 1
            /\ life_polls' = IF EndPolls(life_job_result) THEN life_polls + 1 ELSE life_polls
            /\ \E polled \in PollOutcomes :
                  life_job_result' = EndJobResult(life_job_result, polled)
       ELSE UNCHANGED <<life_closed, life_polls, life_job_result>>
    /\ UNCHANGED life_api

\* get_results read to its end
CallGetResults ==
    /\ Len(life_calls) < MaxCalls
    /\ life_calls' = Append(life_calls, "get_results")
    /\ UNCHANGED <<life_api, life_job_result, life_closed, life_polls>>

----------------------------------------------------------------------------
(* BulkApiDmlOperation.__init__ and RestApiDmlOperation.__init__ on the     *)
(* api_options mapping of the caller.  Mappings are objects of a heap, so   *)
(* that two names of one mapping see each other's assignments.              *)

MaxOperations == 3

\* A mapping with the keys batch_size (Absent when the key is missing) and
\* update_key
OptionsDict(batch_size, update_key) == [batch_size |-> batch_size, update_key |-> update_key]

\* The api_options a caller may pass
CallerOptions ==
    {OptionsDict(b, u) :
        b \in {Absent, 0, 1, 2, DEFAULT_REST_BATCH_SIZE + 50, DEFAULT_BULK_BATCH_SIZE + 50},
        u \in {NoneV, "Id"}}

\* The mapping as the batch size operators read it
AsOptions(d) == IF d.batch_size = Absent THEN <<>> ELSE [batch_size |-> d.batch_size]

\* The batch size __init__ of the backend stores
InitBatchSize(a, d) ==
    IF a = BULK THEN EffectiveBulkBatchSize(AsOptions(d))
    ELSE EffectiveRestBatchSize(AsOptions(d))

\* The caller's mapping kept as the operation's own, without a copy
OptionsCopy_SameObject(h, ref) == [heap |-> h, ref |-> ref]

\* api_options.copy(): a new object of the heap with the items of the old
OptionsCopy(h, ref) == [heap |-> Append(h, h[ref]), ref |-> Len(h) + 1]

\* __init__ of the backend a, given the mapping ref of heap h: the heap after
\* it and the mapping the operation holds
Construct(a, h, ref) ==
    LET own == OptionsCopy(h, ref)
    IN  [heap |-> [own.heap EXCEPT ![own.ref].batch_size = InitBatchSize(a, own.heap[own.ref])],
         ref |-> own.ref]

\* The object of the heap that is the caller's api_options
CallerRef == 1

ConstructIdle ==
    /\ heap = <<>>
    /\ given_options = OptionsDict(Absent, NoneV)
    /\ operations = <<>>

\* A caller holding an api_options mapping, no operation built yet
ConstructInit ==
    /\ given_options \in CallerOptions
    /\ heap = <<given_options>>
    /\ operations = <<>>

\* BulkApiDmlOperation(..., api_options=api_options, ...)
NewBulkApiDmlOperation ==
    /\ Len(operations) < MaxOperations
    /\ LET built == Construct(BULK, heap, CallerRef)
       IN  /\ heap' = built.heap
           /\ operations' = Append(operations, [api |-> BULK, api_options |-> built.ref])
    /\ UNCHANGED given_options

\* RestApiDmlOperation(..., api_options=api_options, ...)
NewRestApiDmlOperation ==
    /\ Len(operations) < MaxOperations
    /\ LET built == Construct(REST, heap, CallerRef)
       IN  /\ heap' = built.heap
           /\ operations' = Append(operations, [api |-> REST, api_options |-> built.ref])
    /\ UNCHANGED given_options

----------------------------------------------------------------------------
(* Specifications: one per component, the other components idle *)

InitParse == ParseInit /\ BatchIdle /\ ApiIdle /\ RestIdle /\ SelectIdle /\ FilterIdle
     /\ PortionIdle /\ ResultsIdle /\ TotalsIdle /\ RunIdle /\ ValidateIdle /\ WaitIdle
     /\ UploadIdle /\ TallyIdle /\ LifeIdle /\ ConstructIdle
OthersParse == <<batch_vars, api_vars, rest_vars, select_vars, filter_vars,
    portion_vars, results_vars, totals_vars, run_vars, validate_vars, wait_vars,
    upload_vars, tally_vars, life_vars, construct_vars>>
ParseNext == JobStateFromBatches /\ UNCHANGED OthersParse
SpecParse == InitParse /\ [][ParseNext]_vars

InitBatch == BatchInit /\ ParseIdle /\ ApiIdle /\ RestIdle /\ SelectIdle /\ FilterIdle
     /\ PortionIdle /\ ResultsIdle /\ TotalsIdle /\ RunIdle /\ ValidateIdle /\ WaitIdle
     /\ UploadIdle /\ TallyIdle /\ LifeIdle /\ ConstructIdle
OthersBatch == <<parse_vars, api_vars, rest_vars, select_vars, filter_vars,
    portion_vars, results_vars, totals_vars, run_vars, validate_vars, wait_vars,
    upload_vars, tally_vars, life_vars, construct_vars>>
BatchNext ==
    \/ BatchIterate /\ UNCHANGED OthersBatch
    \/ BatchFinish /\ UNCHANGED OthersBatch
SpecBatch == InitBatch /\ [][BatchNext]_vars

InitApi == ApiInit /\ ParseIdle /\ BatchIdle /\ RestIdle /\ SelectIdle /\ FilterIdle
     /\ PortionIdle /\ ResultsIdle /\ TotalsIdle /\ RunIdle /\ ValidateIdle /\ WaitIdle
     /\ UploadIdle /\ TallyIdle /\ LifeIdle /\ ConstructIdle
OthersApi == <<parse_vars, batch_vars, rest_vars, select_vars, filter_vars,
    portion_vars, results_vars, totals_vars, run_vars, validate_vars, wait_vars,
    upload_vars, tally_vars, life_vars, construct_vars>>
ApiNext ==
    \/ CallGetDmlOperation /\ UNCHANGED OthersApi
    \/ CallGetQueryOperation /\ UNCHANGED OthersApi
SpecApi == InitApi /\ [][ApiNext]_vars

InitRest == RestInit /\ ParseIdle /\ BatchIdle /\ ApiIdle /\ SelectIdle /\ FilterIdle
     /\ PortionIdle /\ ResultsIdle /\ TotalsIdle /\ RunIdle /\ ValidateIdle /\ WaitIdle
     /\ UploadIdle /\ TallyIdle /\ LifeIdle /\ ConstructIdle
OthersRest == <<parse_vars, batch_vars, api_vars, select_vars, filter_vars,
    portion_vars, results_vars, totals_vars, run_vars, validate_vars, wait_vars,
    upload_vars, tally_vars, life_vars, construct_vars>>
RestNext ==
    \/ RestLoadStart /\ UNCHANGED OthersRest
    \/ RestLoadChunk /\ UNCHANGED OthersRest
    \/ RestLoadFinish /\ UNCHANGED OthersRest
SpecRest == InitRest /\ [][RestNext]_vars

InitSelect == SelectInit /\ ParseIdle /\ BatchIdle /\ ApiIdle /\ RestIdle /\ FilterIdle
     /\ PortionIdle /\ ResultsIdle /\ TotalsIdle /\ RunIdle /\ ValidateIdle /\ WaitIdle
     /\ UploadIdle /\ TallyIdle /\ LifeIdle /\ ConstructIdle
OthersSelect == <<parse_vars, batch_vars, api_vars, rest_vars, filter_vars,
    portion_vars, results_vars, totals_vars, run_vars, validate_vars, wait_vars,
    upload_vars, tally_vars, life_vars, construct_vars>>
SelectNext ==
    \/ SelectQueryBatch /\ UNCHANGED OthersSelect
    \/ SelectFinish /\ UNCHANGED OthersSelect
SpecSelect == InitSelect /\ [][SelectNext]_vars

InitFilter == FilterInit /\ ParseIdle /\ BatchIdle /\ ApiIdle /\ RestIdle /\ SelectIdle
     /\ PortionIdle /\ ResultsIdle /\ TotalsIdle /\ RunIdle /\ ValidateIdle /\ WaitIdle
     /\ UploadIdle /\ TallyIdle /\ LifeIdle /\ ConstructIdle
OthersFilter == <<parse_vars, batch_vars, api_vars, rest_vars, select_vars,
    portion_vars, results_vars, totals_vars, run_vars, validate_vars, wait_vars,
    upload_vars, tally_vars, life_vars, construct_vars>>
FilterNext ==
    \/ CallGenerateUserFilterQuery /\ UNCHANGED OthersFilter
    \/ CallAddLimitOffsetToUserFilter /\ UNCHANGED OthersFilter
SpecFilter == InitFilter /\ [][FilterNext]_vars

InitPortion == PortionInit /\ ParseIdle /\ BatchIdle /\ ApiIdle /\ RestIdle
     /\ SelectIdle /\ FilterIdle /\ ResultsIdle /\ TotalsIdle /\ RunIdle /\ ValidateIdle
     /\ WaitIdle /\ UploadIdle /\ TallyIdle /\ LifeIdle /\ ConstructIdle
OthersPortion == <<parse_vars, batch_vars, api_vars, rest_vars, select_vars,
    filter_vars, results_vars, totals_vars, run_vars, validate_vars, wait_vars,
    upload_vars, tally_vars, life_vars, construct_vars>>
PortionNext == CallNextBatchSize /\ UNCHANGED OthersPortion
SpecPortion == InitPortion /\ [][PortionNext]_vars

InitResults == ResultsInit /\ ParseIdle /\ BatchIdle /\ ApiIdle /\ RestIdle
     /\ SelectIdle /\ FilterIdle /\ PortionIdle /\ TotalsIdle /\ RunIdle /\ ValidateIdle
     /\ WaitIdle /\ UploadIdle /\ TallyIdle /\ LifeIdle /\ ConstructIdle
OthersResults == <<parse_vars, batch_vars, api_vars, rest_vars, select_vars,
    filter_vars, portion_vars, totals_vars, run_vars, validate_vars, wait_vars,
    upload_vars, tally_vars, life_vars, construct_vars>>
ResultsNext ==
    \/ Mkstemp /\ UNCHANGED OthersResults
    \/ Fetch /\ UNCHANGED OthersResults
    \/ YieldResult /\ UNCHANGED OthersResults
    \/ ParseFails /\ UNCHANGED OthersResults
    \/ BatchExhausted /\ UNCHANGED OthersResults
    \/ GeneratorClose /\ UNCHANGED OthersResults
    \/ ResultsFinish /\ UNCHANGED OthersResults
SpecResults == InitResults /\ [][ResultsNext]_vars

InitTotals == TotalsInit /\ ParseIdle /\ BatchIdle /\ ApiIdle /\ RestIdle /\ SelectIdle
     /\ FilterIdle /\ PortionIdle /\ ResultsIdle /\ RunIdle /\ ValidateIdle /\ WaitIdle
     /\ UploadIdle /\ TallyIdle /\ LifeIdle /\ ConstructIdle
OthersTotals == <<parse_vars, batch_vars, api_vars, rest_vars, select_vars,
    filter_vars, portion_vars, results_vars, run_vars, validate_vars, wait_vars,
    upload_vars, tally_vars, life_vars, construct_vars>>
TotalsNext ==
    \/ ResultsReportPut /\ UNCHANGED OthersTotals
    \/ CallUpdateRunningTotals /\ UNCHANGED OthersTotals
    \/ GetResultsReport /\ UNCHANGED OthersTotals
    \/ ReceiveEmpty /\ UNCHANGED OthersTotals
SpecTotals == InitTotals /\ [][TotalsNext]_vars
\* The coordinator runs: an update_running_totals under way takes its next step
FairTotals == WF_vars((GetResultsReport \/ ReceiveEmpty) /\ UNCHANGED OthersTotals)
SpecTotalsFair == SpecTotals /\ FairTotals

InitRun == RunInit /\ ParseIdle /\ BatchIdle /\ ApiIdle /\ RestIdle /\ SelectIdle
     /\ FilterIdle /\ ResultsIdle /\ ValidateIdle /\ WaitIdle /\ UploadIdle /\ TallyIdle
     /\ LifeIdle /\ ConstructIdle
OthersRun == <<parse_vars, batch_vars, api_vars, rest_vars, select_vars, filter_vars,
    results_vars, validate_vars, wait_vars, upload_vars, tally_vars, life_vars,
    construct_vars>>
RunNext ==
    \/ RunStart /\ UNCHANGED OthersRun
    \/ GenerateAndLoadInitialBatch /\ UNCHANGED OthersRun
    \/ Tick /\ UNCHANGED OthersRun
    \/ ReportStatus /\ UNCHANGED OthersRun
    \/ LoopExit /\ UNCHANGED OthersRun
    \/ Finish /\ UNCHANGED OthersRun
    \/ GenerationDone /\ UNCHANGED OthersRun
    \/ LoadDone /\ UNCHANGED OthersRun
    \/ JobFailed /\ UNCHANGED OthersRun
SpecRun == InitRun /\ [][RunNext]_vars
\* The coordinator runs, its sleep returns, and a worker at work on a task ends its
\* generation and its load; nothing says that a task fails or does not
FairRun ==
    /\ WF_vars((RunStart \/ GenerateAndLoadInitialBatch \/ Tick \/ ReportStatus \/
                  LoopExit \/ Finish) /\ UNCHANGED OthersRun)
    /\ WF_vars((GenerationDone) /\ UNCHANGED OthersRun)
    /\ WF_vars((LoadDone) /\ UNCHANGED OthersRun)
SpecRunFair == SpecRun /\ FairRun

InitValidate == ValidateInit /\ ParseIdle /\ BatchIdle /\ ApiIdle /\ RestIdle
     /\ SelectIdle /\ FilterIdle /\ ResultsIdle /\ WaitIdle /\ UploadIdle /\ TallyIdle
     /\ LifeIdle /\ ConstructIdle
OthersValidate == <<parse_vars, batch_vars, api_vars, rest_vars, select_vars,
    filter_vars, results_vars, wait_vars, upload_vars, tally_vars, life_vars,
    construct_vars>>
ValidateNext ==
    \/ ValidateOptions /\ UNCHANGED OthersValidate
    \/ CallRunTask /\ UNCHANGED OthersValidate
SpecValidate == InitValidate /\ [][ValidateNext]_vars

InitWait == WaitInit /\ ParseIdle /\ BatchIdle /\ ApiIdle /\ RestIdle /\ SelectIdle
     /\ FilterIdle /\ PortionIdle /\ ResultsIdle /\ TotalsIdle /\ RunIdle
     /\ ValidateIdle /\ UploadIdle /\ TallyIdle /\ LifeIdle /\ ConstructIdle
OthersWait == <<parse_vars, batch_vars, api_vars, rest_vars, select_vars, filter_vars,
    portion_vars, results_vars, totals_vars, run_vars, validate_vars, upload_vars,
    tally_vars, life_vars, construct_vars>>
WaitNext ==
    \/ BatchAdvances /\ UNCHANGED OthersWait
    \/ PollJob /\ UNCHANGED OthersWait
    \/ WakeUp /\ UNCHANGED OthersWait
SpecWait == InitWait /\ [][WaitNext]_vars
\* _wait_for_job runs: its poll and the return of its sleep are taken; the org may stall
FairWait == WF_vars((PollJob \/ WakeUp) /\ UNCHANGED OthersWait)
SpecWaitFair == SpecWait /\ FairWait

InitUpload == UploadInit /\ ParseIdle /\ BatchIdle /\ ApiIdle /\ RestIdle /\ SelectIdle
     /\ FilterIdle /\ PortionIdle /\ ResultsIdle /\ TotalsIdle /\ RunIdle
     /\ ValidateIdle /\ WaitIdle /\ TallyIdle /\ LifeIdle /\ ConstructIdle
OthersUpload == <<parse_vars, batch_vars, api_vars, rest_vars, select_vars,
    filter_vars, portion_vars, results_vars, totals_vars, run_vars, validate_vars,
    wait_vars, tally_vars, life_vars, construct_vars>>
UploadNext ==
    \/ BulkPostBatch /\ UNCHANGED OthersUpload
    \/ RestSendChunk /\ UNCHANGED OthersUpload
    \/ LoadRecordsReturns /\ UNCHANGED OthersUpload
    \/ BulkYieldBatch /\ UNCHANGED OthersUpload
    \/ RestYieldResult /\ UNCHANGED OthersUpload
    \/ GetResultsEnds /\ UNCHANGED OthersUpload
SpecUpload == InitUpload /\ [][UploadNext]_vars

InitTally == TallyInit /\ ParseIdle /\ BatchIdle /\ ApiIdle /\ FilterIdle /\ PortionIdle
     /\ ResultsIdle /\ TotalsIdle /\ RunIdle /\ ValidateIdle /\ WaitIdle /\ UploadIdle
     /\ LifeIdle /\ ConstructIdle
OthersTally == <<parse_vars, batch_vars, api_vars, filter_vars, portion_vars,
    results_vars, totals_vars, run_vars, validate_vars, wait_vars, upload_vars,
    life_vars, construct_vars>>
TallyNext ==
    \/ RestLoadRecords /\ UNCHANGED OthersTally
    \/ SelectRecords /\ UNCHANGED OthersTally
    \/ RestGetResults /\ UNCHANGED OthersTally
    \/ SelectGetResults /\ UNCHANGED OthersTally
SpecTally == InitTally /\ [][TallyNext]_vars

InitLife == LifeInit /\ ParseIdle /\ BatchIdle /\ ApiIdle /\ RestIdle /\ SelectIdle
     /\ FilterIdle /\ PortionIdle /\ ResultsIdle /\ TotalsIdle /\ RunIdle
     /\ ValidateIdle /\ WaitIdle /\ UploadIdle /\ TallyIdle /\ ConstructIdle
OthersLife == <<parse_vars, batch_vars, api_vars, rest_vars, select_vars, filter_vars,
    portion_vars, results_vars, totals_vars, run_vars, validate_vars, wait_vars,
    upload_vars, tally_vars, construct_vars>>
LifeNext ==
    \/ CallLoadRecords /\ UNCHANGED OthersLife
    \/ CallSelectRecords /\ UNCHANGED OthersLife
    \/ CallEnd /\ UNCHANGED OthersLife
    \/ CallGetResults /\ UNCHANGED OthersLife
SpecLife == InitLife /\ [][LifeNext]_vars

InitConstruct == ConstructInit /\ ParseIdle /\ BatchIdle /\ ApiIdle /\ RestIdle
     /\ SelectIdle /\ FilterIdle /\ PortionIdle /\ ResultsIdle /\ TotalsIdle /\ RunIdle
     /\ ValidateIdle /\ WaitIdle /\ UploadIdle /\ TallyIdle /\ LifeIdle
OthersConstruct == <<parse_vars, batch_vars, api_vars, rest_vars, select_vars,
    filter_vars, portion_vars, results_vars, totals_vars, run_vars, validate_vars,
    wait_vars, upload_vars, tally_vars, life_vars>>
ConstructNext ==
    \/ NewBulkApiDmlOperation /\ UNCHANGED OthersConstruct
    \/ NewRestApiDmlOperation /\ UNCHANGED OthersConstruct
SpecConstruct == InitConstruct /\ [][ConstructNext]_vars

----------------------------------------------------------------------------
(* Properties of _parse_job_state (SpecParse) *)

AnyBatchIn(S) == \E i \in 1..Len(xml) : xml[i].state \in S
TotalFailed == SumSeq([i \in 1..Len(xml) |-> xml[i].numberRecordsFailed])
TotalProcessed == SumSeq([i \in 1..Len(xml) |-> xml[i].numberRecordsProcessed])

\* C1: the status _parse_job_state returns follows the strict precedence
\* Not Processed > InProgress/Queued > Failed > failed records > success, and
\* records_processed and total_row_errors are the sums over all batches.
C1_JobStatePrecedence ==
    parse_pc = "returned" =>
        /\ parse_result.status =
              IF AnyBatchIn({"Not Processed"}) THEN ABORTED
              ELSE IF AnyBatchIn({"InProgress", "Queued"}) THEN IN_PROGRESS
              ELSE IF AnyBatchIn({"Failed"}) THEN JOB_FAILURE
              ELSE IF TotalFailed > 0 THEN ROW_FAILURE
              ELSE SUCCESS
        /\ parse_result.records_processed = TotalProcessed
        /\ parse_result.total_row_errors = TotalFailed

\* A job with a batch not processed and another still queued has been
\* classified as aborted, with the failed counts of both batches summed.
C1_Witness ==
    /\ parse_pc = "returned"
    /\ Len(xml) = 2
    /\ xml[1].state = "Queued"
    /\ xml[2].state = "Not Processed"
    /\ xml[1].numberRecordsFailed = 1
    /\ xml[2].numberRecordsFailed = 1
    /\ parse_result.status = ABORTED
    /\ parse_result.total_row_errors = 2

----------------------------------------------------------------------------
(* Properties of _batch (SpecBatch) *)

SerializedRecords == [i \in 1..Len(records) |-> SerializeCsvRecord(records[i])]
YieldedDataRows == Flatten([i \in 1..Len(yielded) |-> DataRows(yielded[i])])

\* C2: no yielded batch is larger, header included, than char_limit.
C2_NoBatchOverCharLimit ==
    \A i \in 1..Len(yielded) : BatchChars(yielded[i]) <= char_limit

\* C3: every yielded batch starts with the header row; the data rows yielded
\* and held so far are the records consumed, in order; and when the generator
\* ends the data rows of the yielded batches are exactly the input.
C3_EveryRecordInExactlyOneBatch ==
    /\ \A i \in 1..Len(yielded) : Head(yielded[i]) = serialized_csv_fields
    /\ batch_pc \in {"loop", "done"} =>
          YieldedDataRows \o (IF batch_pc = "loop" THEN DataRows(batch) ELSE <<>>)
              = SubSeq(SerializedRecords, 1, batch_pos)
    /\ batch_pc = "done" => YieldedDataRows = SerializedRecords

\* Three records have been split over at least two batches and the generator
\* has ended.
C3_Witness ==
    /\ batch_pc = "done"
    /\ Len(records) = 3
    /\ Len(yielded) >= 2
    /\ Len(yielded[Len(yielded)]) = 2

\* C4: no yielded batch has more than n data rows.
C4_AtMostNDataRows ==
    \A i \in 1..Len(yielded) : Len(DataRows(yielded[i])) <= n

\* One batch was ended by the character limit below n rows and a later one by
\* the record count at n rows.
C4_Witness ==
    /\ batch_pc = "done"
    /\ n = 2
    /\ Len(yielded) = 2
    /\ Len(DataRows(yielded[1])) = 1
    /\ Len(DataRows(yielded[2])) = 2

----------------------------------------------------------------------------
(* Properties of get_dml_operation and get_query_operation (SpecApi) *)

DmlReturned == api_pc = "returned" /\ api_fn = "dml"
QueryReturned == api_pc = "returned" /\ api_fn = "query"
ReturnedBulk == api_ret \in {"BulkApiDmlOperation", "BulkApiQueryOperation"}
ReturnedRest == api_ret \in {"RestApiDmlOperation", "RestApiQueryOperation"}
OldApiVersion == Float(sf_version) < REST_COLLECTIONS_VERSION

C6_ExplicitBackendAlwaysUsed ==
    api_pc = "returned" =>
        /\ api = BULK => ReturnedBulk
        /\ api = REST => ReturnedRest

\* C6 amended: explicit BULK always gives the Bulk backend; explicit REST gives
\* the REST backend when the API version is at least 42.0 and the Bulk backend
\* when it is below; volume, record count and operation have no influence.
C6_ExplicitBackendUnlessOldVersion ==
    api_pc = "returned" =>
        /\ api = BULK => ReturnedBulk
        /\ (api = REST /\ ~OldApiVersion) => ReturnedRest
        /\ (api = REST /\ OldApiVersion) => ReturnedBulk

\* An explicit REST was honoured for a volume above the Bulk threshold.
C6_Witness ==
    /\ DmlReturned
    /\ api = REST
    /\ volume > DML_BULK_VOLUME
    /\ ~OldApiVersion
    /\ ReturnedRest

\* C7: get_dml_operation never returns the REST backend for HARD_DELETE.
C7_HardDeleteNeverRest ==
    (DmlReturned /\ operation = HARD_DELETE) => ~ReturnedRest

----------------------------------------------------------------------------
(* Properties of RestApiDmlOperation (SpecRest) *)

AllResponses == Flatten(responses)

\* C9: load_records sets one job result, after the last chunk: records_processed
\* is the number of per-record results of all chunks, total_row_errors the number
\* of them with success = false, status SUCCESS iff there is none, else ROW_FAILURE.
C9_OneJobResultPerOperation ==
    /\ rest_pc # "done" => rest_job_result = NoResult
    /\ rest_pc = "done" =>
          /\ rest_job_result.records_processed = Len(AllResponses)
          /\ rest_job_result.total_row_errors =
                Cardinality({i \in 1..Len(AllResponses) : ~AllResponses[i].success})
          /\ rest_job_result.status =
                IF \A i \in 1..Len(AllResponses) : AllResponses[i].success
                THEN SUCCESS ELSE ROW_FAILURE
          /\ rest_job_result.job_errors = <<>>

\* Three records went out in more than one chunk, one was rejected.
C9_Witness ==
    /\ rest_pc = "done"
    /\ Len(responses) >= 2
    /\ ~responses[1][1].success
    /\ rest_job_result = DataOperationJobResult(ROW_FAILURE, <<>>, 3, 1)

\* The request of the current chunk, when one was built from it
RequestBuilt == rest_pc \in {"loop", "done"} /\ Len(request) = Len(chunk) /\ request # <<>>

EmptyInput(v) == v \in {NoneV, ""}

\* C10 as stated: on INSERT no field whose input was None or "" is in the
\* payload; on UPDATE and UPSERT every field is kept and "" is sent as null;
\* for every field, boolean fields included.
C10_EmptyValuesByOperation ==
    RequestBuilt =>
        \A j \in 1..Len(request) : \A f \in 1..Len(RestFields) :
            /\ rest_operation = INSERT =>
                  (EmptyInput(chunk[j][f]) => RestFields[f] \notin DOMAIN request[j])
            /\ rest_operation \in {UPDATE, UPSERT} =>
                  /\ RestFields[f] \in DOMAIN request[j]
                  /\ chunk[j][f] = "" => request[j][RestFields[f]] = NoneV

\* C10 amended: the above for every field that is not a boolean field; a boolean
\* field is kept under INSERT, UPDATE and UPSERT alike, and sent as false when
\* its input was None or "".
C10_EmptyValuesNonBoolean ==
    RequestBuilt =>
        \A j \in 1..Len(request) : \A f \in 1..Len(RestFields) :
            IF InSeq(RestFields[f], BooleanFields)
            THEN rest_operation \in {INSERT, UPDATE, UPSERT} =>
                    /\ RestFields[f] \in DOMAIN request[j]
                    /\ EmptyInput(chunk[j][f]) => request[j][RestFields[f]] = FalseV
            ELSE /\ rest_operation = INSERT =>
                      (EmptyInput(chunk[j][f]) => RestFields[f] \notin DOMAIN request[j])
                 /\ rest_operation \in {UPDATE, UPSERT} =>
                      /\ RestFields[f] \in DOMAIN request[j]
                      /\ chunk[j][f] = "" => request[j][RestFields[f]] = NoneV

\* An INSERT of a record whose fields are all empty strings: the text field is
\* dropped, the boolean field is sent as false.
C10_Witness ==
    /\ RequestBuilt
    /\ rest_operation = INSERT
    /\ \E j \in 1..Len(request) :
          /\ chunk[j] = <<"", "">>
          /\ "Id" \notin DOMAIN request[j]
          /\ "IsActive" \in DOMAIN request[j]
          /\ request[j]["IsActive"] = FalseV

\* C11: whatever api_options RestApiDmlOperation is given, its batch size is at
\* most MAX_REST_BATCH_SIZE (200, below the Bulk default of 10,000) and is 200
\* when batch_size is absent or 0; no chunk and no composite request of
\* load_records holds more records than that batch size.
C11_RestBatchSizeCapped ==
    /\ MAX_REST_BATCH_SIZE = 200
    /\ MAX_REST_BATCH_SIZE < DEFAULT_BULK_BATCH_SIZE
    /\ rest_batch_size <= MAX_REST_BATCH_SIZE
    /\ ("batch_size" \notin DOMAIN rest_api_options \/ rest_api_options.batch_size = 0)
          => rest_batch_size = 200
    /\ Len(chunk) <= rest_batch_size
    /\ Len(request) <= rest_batch_size
    /\ \A i \in 1..Len(responses) : Len(responses[i]) <= rest_batch_size

\* Three records loaded with batch_size 2 went out as a request of two records
\* and a request of one.
C11_Witness ==
    /\ rest_pc = "done"
    /\ rest_api_options = [batch_size |-> 2]
    /\ rest_batch_size = 2
    /\ Len(rest_records) = 3
    /\ Len(responses) = 2
    /\ Len(responses[1]) = 2
    /\ Len(chunk) = 1

----------------------------------------------------------------------------
(* Properties of select_records (SpecSelect) *)

\* select_records has come to its end, by returning or by raising after its queries
SelectEnded == sel_pc = "done" \/ (sel_pc = "raised" /\ sel_error # "SOQLQueryException")

\* What select_records leaves behind when there was no candidate
NoCandidatesOutcome ==
    /\ sel_pc = "done"
    /\ sel_error = NoneV
    /\ sel_job_result.status = JOB_FAILURE
    /\ sel_job_result.job_errors = <<NoRecordsFound(sel_sobject)>>
    /\ sel_job_result.records_processed = 0
    /\ select_results = <<>>

\* C12: when a select operation has retrieved no candidate record, whatever the
\* strategy and the sobject, no exception is raised: select_records of either
\* backend ends with status JOB_FAILURE, job_errors holding exactly the message
\* "No records found for {sobject} in the target org.", records_processed = 0
\* and no selected record.
C12_NoCandidatesIsJobFailure ==
    (SelectEnded /\ query_records = <<>>) => NoCandidatesOutcome

\* The same for a select over at least one load record
C12_NoCandidatesForSomeLoadRecords ==
    (SelectEnded /\ query_records = <<>> /\ total_num_records >= 1) => NoCandidatesOutcome

\* The i-th assignment of a round-robin over the candidates
RoundRobin(i) == SelectAssignment(query_records[((i - 1) % Len(query_records)) + 1][1])

\* C13: a select with the STANDARD or RANDOM strategy over N >= 1 load records
\* and at least one candidate produces exactly N assignments, the i-th being
\* {id, success = True, created = False} of the candidates taken round-robin,
\* and records_processed = N, on both backends and for every batch_size,
\* N larger than batch_size included.
C13_OneAssignmentPerLoadRecord ==
    (/\ sel_pc = "done"
     /\ sel_strategy \in {STANDARD, RANDOM}
     /\ total_num_records >= 1
     /\ query_records # <<>>)
    => /\ Len(select_results) = total_num_records
       /\ \A i \in 1..Len(select_results) : select_results[i] = RoundRobin(i)
       /\ sel_job_result.records_processed = total_num_records
       /\ sel_job_result.status = SUCCESS

\* The ids of the candidates a batch adds: the rows of the select query, or with
\* a selection filter those of them the user query returned too, in its order
BatchCandidateIds(b) ==
    IF selection_filter
    THEN LET Both(id) == InSeq(id, select_responses[b])
         IN  SelectSeq(user_responses[b], Both)
    ELSE select_responses[b]

\* C14: every id of an assignment is the id of a row the select query returned
\* and, with a selection filter, of a row the user filter query of the same
\* batch returned too; the candidates are those rows in the order of the user
\* filter results.
C14_NoFabricatedIds ==
    /\ \A i \in 1..Len(select_results) :
          \E b \in 1..Len(select_responses) :
             /\ InSeq(select_results[i].id, select_responses[b])
             /\ selection_filter => InSeq(select_results[i].id, user_responses[b])
    /\ [i \in 1..Len(query_records) |-> query_records[i][1]] =
          Flatten([b \in 1..Len(select_responses) |-> BatchCandidateIds(b)])

\* With a selection filter the user query returned the two rows of the select
\* query in the opposite order, and the first assignment is its first row.
C14_Witness ==
    /\ sel_pc = "done"
    /\ selection_filter
    /\ select_responses = << <<"001", "002">> >>
    /\ user_responses = << <<"002", "001">> >>
    /\ Len(select_results) = 2
    /\ select_results[1].id = "002"

----------------------------------------------------------------------------
(* Properties of the limit/offset merge (SpecFilter) *)

\* The last k words of s
LastWords(s, k) == SubSeq(s, Len(s) - k + 1, Len(s))

HasWord(kw, s) == \E i \in 1..Len(s) : Upper(s[i]) = kw

\* C15: merging a requested limit and offset into a user filter, by
\* generate_user_filter_query and by add_limit_offset_to_user_filter: the LIMIT
\* of the result is min(existing, requested) when both exist and whichever exists
\* otherwise, its OFFSET is existing + requested when both exist and whichever
\* exists otherwise, and the result ends with them; when neither exists no LIMIT,
\* respectively no OFFSET, is in the result.
C15_LimitMinOffsetSum ==
    filter_pc = "returned" =>
        LET el == ExistingClause("LIMIT", filter_clause.toks)
            eo == ExistingClause("OFFSET", filter_clause.toks)
            lim == IF el # Absent /\ limit_clause # Absent
                   THEN (IF el <= limit_clause THEN el ELSE limit_clause)
                   ELSE IF el # Absent THEN el ELSE limit_clause
            off == IF eo # Absent /\ offset_clause # Absent THEN eo + offset_clause
                   ELSE IF eo # Absent THEN eo ELSE offset_clause
            suffix == (IF lim # Absent THEN <<"LIMIT", StrOf(lim)>> ELSE <<>>)
                      \o (IF off # Absent THEN <<"OFFSET", StrOf(off)>> ELSE <<>>)
        IN  /\ Len(filter_ret) >= Len(suffix)
            /\ LastWords(filter_ret, Len(suffix)) = suffix
            /\ lim = Absent => ~HasWord("LIMIT", filter_ret)
            /\ off = Absent => ~HasWord("OFFSET", filter_ret)

\* "WHERE x LIMIT 2 OFFSET 1" merged with limit 1 and offset 3 by
\* generate_user_filter_query
C15_Witness ==
    /\ filter_pc = "returned"
    /\ filter_fn = "generate_user_filter_query"
    /\ filter_clause.toks = <<"WHERE", "x", "LIMIT", "2", "OFFSET", "1">>
    /\ limit_clause = 1
    /\ offset_clause = 3
    /\ filter_ret = <<"SELECT", "Id", "FROM", "Account", "WHERE", "x",
                      "LIMIT", "1", "OFFSET", "4">>

----------------------------------------------------------------------------
(* Properties of the portion controller (SpecPortion) *)

\* C16: with floor 2,000 and ceiling 250,000, as long as the remaining target is
\* at least the current size the results of next_batch_size never decrease and
\* never exceed the ceiling; a call that finds the remaining target smaller than
\* the current size returns exactly the remaining amount.
C16_SizesGrowThenShrinkToRemainder ==
    /\ MIN_PORTION_SIZE = 2000 /\ MAX_PORTION_SIZE = 250000
    /\ \A i \in 1..Len(portion_calls) :
          IF portion_calls[i].remaining >= portion_calls[i].current
          THEN /\ portion_calls[i].result <= MAX_PORTION_SIZE
               /\ i > 1 => portion_calls[i].result >= portion_calls[i - 1].result
          ELSE portion_calls[i].result = portion_calls[i].remaining

\* A target of a million sets: the size has reached the ceiling, and the last
\* call returned the 246,000 sets that remained.
C16_Witness ==
    /\ portions.gap = 1000000
    /\ Len(portion_calls) = 10
    /\ portion_calls[8].result = MAX_PORTION_SIZE
    /\ portion_calls[9].result = MAX_PORTION_SIZE
    /\ portion_calls[10].remaining = 246000
    /\ portion_calls[10].result = 246000

----------------------------------------------------------------------------
(* Properties of the run loop (SpecRun) *)

\* total_sets_working_on_or_uploaded of the upload status the loop holds
StatusTotal ==
    upload_status.sets_queued_to_be_generated + upload_status.sets_being_generated
    + upload_status.sets_queued_for_loading + upload_status.sets_being_loaded
    + upload_status.sets_finished

\* The same of the status get_upload_status would return now
LiveTotal ==
    SumSeq([i \in 1..Len(jobs) |-> jobs[i].size]) + sets_finished + template_sets

\* C17: portions.done(total) is false when the total of sets in flight and
\* finished is below the target gap and true when it is at or above it, and
\* _loop, each time it tests its status, calls tick exactly when that total is
\* below the target gap and leaves the loop otherwise.
C17_TickIffBelowTarget ==
    [][ /\ PortionsDone(portions, StatusTotal) = (StatusTotal >= portions.gap)
        /\ (run_pc = "while" /\ run_pc' # "while") =>
              /\ StatusTotal < portions.gap => run_pc' = "sleep"
              /\ StatusTotal >= portions.gap => run_pc' = "draining"
        /\ (run_pc # "sleep" /\ run_pc' = "sleep") =>
              (run_pc = "while" /\ StatusTotal < portions.gap) ]_vars

\* Two portions were submitted by ticks, then the total reached the target of
\* 5,000 sets and the loop was left.
C17_Witness ==
    /\ run_pc = "draining"
    /\ portions.gap = 5000
    /\ Len(portion_calls) = 2
    /\ StatusTotal >= portions.gap

C20_FailureIsFatal ==
    /\ ERROR_THRESHOLD = 0
    /\ run_pc = "done" => sets_failed <= ERROR_THRESHOLD
    /\ run_pc = "raised" => run_error = "BulkDataException"

\* C21: once the failure threshold has been exceeded the coordinator submits no
\* further work, kills no worker, and drains: the run ends (the exception leaves
\* _run_task) only when check_finished() holds, no task being in flight any more.
C21_DrainsBeforeRunEnds ==
    run_pc = "raised" =>
       /\ sets_failed > ERROR_THRESHOLD
       /\ CheckFinished(jobs)

\* C22: when run_until.nothing_to_do holds at the start (the gap is zero), the
\* run exits right after INIT and in no other case: no template batch has
\* been generated or loaded, no portion requested, no task submitted by a
\* tick, finish() has not run and no running total has changed.
C22_NothingToDoExitsAfterInit ==
    /\ NothingToDo(portions.gap) => run_pc \in {"init", "exited"}
    /\ run_pc = "exited" =>
          /\ NothingToDo(portions.gap)
          /\ template_sets = 0
          /\ portion_calls = <<>> /\ portions.progress = 0
          /\ jobs = <<>> /\ sets_finished = 0 /\ sets_failed = 0
          /\ upload_status = NoStatus
          /\ sobject_counts = NoCounts /\ results_queue = <<>> /\ reports_sent = 0
          /\ run_error = NoneV

\* A run whose gap is zero has exited.
C22_Witness ==
    /\ run_pc = "exited"
    /\ portions.gap = 0
    /\ sobject_counts = NoCounts

\* The steps from one position of _run_task to another that keep the order
\* INIT, GENERATING_TEMPLATE, LOOPING (the test of the loop and its sleep),
\* DRAINING, DONE, with the two other ways out: nothing to do, and the
\* exception of _report_status
PhaseSteps ==
    { <<"init", "template">>, <<"init", "exited">>, <<"template", "while">>,
      <<"while", "sleep">>, <<"sleep", "while">>, <<"sleep", "raised">>,
      <<"while", "draining">>, <<"draining", "done">> }

\* C27: in a run that has work to do the phases follow one another in the
\* order INIT, GENERATING_TEMPLATE, LOOPING, DRAINING, DONE: the template
\* batch is generated and loaded once, right after INIT and before any tick
\* has asked for a portion or submitted a task; finish() (draining) starts only
\* when portions.done(...) is true of the status the loop holds; completion is
\* reported only from draining and only when check_finished() is true.
C27_PhasesInOrder ==
    [][ /\ run_pc' # run_pc => <<run_pc, run_pc'>> \in PhaseSteps
        /\ (run_pc = "init" /\ run_pc' # "init" /\ ~NothingToDo(portions.gap)) =>
              run_pc' = "template"
        /\ template_sets' # template_sets => (run_pc = "template" /\ run_pc' = "while")
        /\ (run_pc = "template" /\ run_pc' = "while") =>
              (portion_calls = <<>> /\ jobs = <<>> /\ template_sets' > 0)
        /\ (portion_calls' # portion_calls \/ Len(jobs') > Len(jobs)) =>
              (run_pc = "while" /\ run_pc' = "sleep")
        /\ (run_pc # "draining" /\ run_pc' = "draining") =>
              PortionsDone(portions, TotalSetsWorkingOnOrUploaded(upload_status))
        /\ (run_pc # "done" /\ run_pc' = "done") =>
              (run_pc = "draining" /\ CheckFinished(jobs)) ]_vars

\* A run of 5,000 sets has gone through every phase: two portions were handed
\* out by ticks, no set failed, every task has finished and completion is
\* reported.
C27_Witness ==
    /\ run_pc = "done"
    /\ portions.gap = 5000
    /\ Len(portion_calls) = 2
    /\ template_sets = 1
    /\ sets_failed = 0
    /\ sets_finished = 5000
    /\ jobs = <<>>

----------------------------------------------------------------------------
(* Properties of the running totals and the result channel (SpecTotals) *)

\* The records processed, and the rows in error, that step_results reports for
\* the sobject s
ProcessedOf(step_results, s) ==
    SumSeq([i \in 1..Len(step_results) |->
              IF step_results[i].sobject = s THEN step_results[i].records_processed ELSE 0])
RowErrorsOf(step_results, s) ==
    SumSeq([i \in 1..Len(step_results) |->
              IF step_results[i].sobject = s THEN step_results[i].total_row_errors ELSE 0])

\* C23: for every sobject, successes and errors never decrease and are never
\* reset; consuming a load result adds its total_row_errors to errors and its
\* records_processed - total_row_errors to successes, and a message that is
\* not a load result changes no total.
C23_TotalsOnlyGrow ==
    [][\A s \in Sobjects :
          /\ sobject_counts'[s].successes >= sobject_counts[s].successes
          /\ sobject_counts'[s].errors >= sobject_counts[s].errors
          /\ Len(results_queue') < Len(results_queue) =>
                LET report == Head(results_queue)
                IN  /\ sobject_counts'[s].errors =
                          sobject_counts[s].errors + RowErrorsOf(report.step_results, s)
                    /\ sobject_counts'[s].successes =
                          sobject_counts[s].successes
                          + ProcessedOf(report.step_results, s)
                          - RowErrorsOf(report.step_results, s)]_vars

\* Two load results have been consumed: an Account record loaded and a Contact
\* record in error.
C23_Witness ==
    /\ totals_pc = "returned"
    /\ results_queue = <<>>
    /\ sobject_counts["Account"] = [successes |-> 1, errors |-> 0]
    /\ sobject_counts["Contact"] = [successes |-> 0, errors |-> 1]

\* One step of the while loop of update_running_totals
DrainStep == GetResultsReport \/ ReceiveEmpty

\* C30: update_running_totals never blocks on the result channel: while it
\* runs, its receive always has an outcome at once, a message when there is
\* one and the return at the first 'empty'; and, the workers putting finitely
\* many messages, every call of it returns.
C30_DrainNeverBlocks ==
    /\ [](totals_pc = "drain" => ENABLED DrainStep)
    /\ [](totals_pc = "drain" /\ results_queue = <<>> => ENABLED ReceiveEmpty)
    /\ (totals_pc = "drain") ~> (totals_pc = "returned")

\* update_running_totals runs, the channel is empty, and the two messages the
\* workers have sent have been consumed.
C30_Witness ==
    /\ totals_pc = "drain"
    /\ results_queue = <<>>
    /\ reports_sent = MaxReports
    /\ sobject_counts["Account"].successes = 1
    /\ ENABLED ReceiveEmpty

----------------------------------------------------------------------------
(* Properties of download_file and _get_batch_results (SpecResults) *)

\* download_file is not under way: before the first download, between two
\* downloads, or after the generator has ended
OutsideDownload == res_pc \in {"next", "done", "raised", "closed"}

\* C24: once download_file has exited, normally, because the download failed,
\* or because of an exception raised in the with-body (the generator being
\* closed included), the temporary file it created no longer exists; no other
\* file is removed, and while the with-body runs the file exists.
C24_TempFileRemoved ==
    /\ OutsideDownload => temp_files = {OtherFile}
    /\ OutsideDownload => \A k \in 1..res_pos : TempPath(k) \notin temp_files
    /\ res_pc \in {"fetch", "body"} =>
          dl_path = TempPath(res_pos) /\ temp_files = {OtherFile, dl_path}

\* The file of the first batch was read to its end; the second file was
\* downloaded and one of its rows yielded, then a row failed to parse inside
\* the with-body: neither file exists any more.
C24_Witness ==
    /\ res_pc = "raised"
    /\ res_pos = 2
    /\ served[1].outcome = "ok" /\ served[2].outcome = "ok"
    /\ row_pos = 1
    /\ TempPath(1) \notin temp_files /\ TempPath(2) \notin temp_files

\* The results of the first k rows of a file
ParsedRows(file, k) == [j \in 1..k |-> ParseRow(file.rows[j])]

\* What the stream has to have yielded: every row of the files of the earlier
\* batches, and the rows of the current file read so far, in order
ExpectedYield ==
    Flatten([i \in 1..Len(served) |->
               ParsedRows(served[i].file,
                          IF i < res_pos THEN Len(served[i].file.rows) ELSE row_pos)])

\* The download and the parsing of the batch at position i meet no failure
BatchClean(i) ==
    /\ served[i].outcome = "ok"
    /\ served[i].file.header
    /\ \A j \in 1..Len(served[i].file.rows) : ~ParseRowRaises(served[i].file.rows[j])

\* The failure the stream has stopped at: the download of the current batch,
\* or the parsing of the row after the rows yielded
FailedHere ==
    IF served[res_pos].outcome # "ok" THEN row_pos = 0
    ELSE IF ~served[res_pos].file.header THEN row_pos = 0
    ELSE /\ row_pos < Len(served[res_pos].file.rows)
         /\ ParseRowRaises(served[res_pos].file.rows[row_pos + 1])

\* C25: a failure while downloading or parsing the result file of a batch ends
\* the stream with a BulkDataException naming that batch id; the results of
\* the earlier batches, and of the rows of that batch before the failure, have
\* been yielded in order, and nothing else: no result of the rest of that
\* batch or of a later batch. No failure is passed over: a batch the loop has
\* left behind met none.
C25_FailureAbortsStream ==
    /\ res_yielded = ExpectedYield
    /\ res_pc = "raised" =>
          /\ res_pos = Len(served)
          /\ FailedHere
          /\ res_error.type = "BulkDataException"
          /\ res_error.batch_id = res_batch_ids[res_pos]
    /\ res_pc # "raised" => res_error = NoError
    /\ \A i \in 1..Len(served) :
          (i < res_pos \/ res_pc \in {"next", "done"}) => BatchClean(i)

\* The two results of the first batch were yielded, then the download of the
\* second batch failed on the HTTP status.
C25_Witness ==
    /\ res_pc = "raised"
    /\ Len(res_batch_ids) = 2
    /\ res_pos = 2
    /\ served[2].outcome = "status raises"
    /\ Len(res_yielded) = 2
    /\ res_error = BulkDataExceptionFor("751B", "status raises")

----------------------------------------------------------------------------
(* Properties of _validate_options (SpecValidate) *)

\* The loading-rules files in play: those listed, and the implicit one if it
\* exists
RulesFilesInPlay ==
    ({loading_rules_option[i] : i \in 1..Len(loading_rules_option)} \ {""})
    \cup (IF rules_files[ImplicitRulesFile] # "missing" THEN {ImplicitRulesFile} ELSE {})

\* Those of them that contain shard declarations
ShardedFilesInPlay == {f \in RulesFilesInPlay : rules_files[f] = "sharded"}

\* Nothing of the run exists: no queue configured, no template batch, no
\* worker, no task
NoWorkBegun ==
    /\ run_pc = "idle"
    /\ num_generator_workers = 0
    /\ template_sets = 0
    /\ jobs = <<>>
    /\ portion_calls = <<>>
    /\ sobject_counts = NoCounts

----------------------------------------------------------------------------
(* Properties of _wait_for_job (SpecWait, SpecWaitFair) *)

\* Some batch of the job is now in one of the states S
WaitBatchIn(S) == \E i \in 1..Len(wait_batches) : wait_batches[i].state \in S

\* The batches of the job no longer hold the loop: none is queued or in
\* progress, or one is not processed
Settled == WaitBatchIn({"Not Processed"}) \/ ~WaitBatchIn({"Queued", "InProgress"})

\* C28 as stated: whenever _wait_for_job has returned, no batch of the job is
\* still 'Queued' or 'InProgress'.
C28_ReturnsWhenAllBatchesTerminal ==
    wait_pc = "returned" => ~WaitBatchIn({"Queued", "InProgress"})

\* C28 amended: whenever _wait_for_job has returned, either its result is
\* ABORTED and a batch of the job is 'Not Processed' (other batches may then
\* still be 'Queued' or 'InProgress'), or no batch of the job is 'Queued' or
\* 'InProgress'; it never returns IN_PROGRESS.
C28_ReturnsWhenTerminalOrAborted ==
    wait_pc = "returned" =>
       /\ wait_result.status # IN_PROGRESS
       /\ IF wait_result.status = ABORTED
          THEN WaitBatchIn({"Not Processed"})
          ELSE ~WaitBatchIn({"Queued", "InProgress", "Not Processed"})

\* _wait_for_job has returned ABORTED for a job of two batches, one not
\* processed and one that is still in progress.
C28_Witness ==
    /\ wait_pc = "returned"
    /\ wait_result.status = ABORTED
    /\ Len(wait_batches) = 2
    /\ wait_batches[1].state = "Not Processed"
    /\ wait_batches[2].state = "InProgress"

\* C29: if from some point on the batches of the job are settled (none
\* 'Queued' or 'InProgress', or one 'Not Processed'), _wait_for_job eventually
\* returns; what it returns is the state derived from the batches at its last
\* poll, whose status is SUCCESS, ROW_FAILURE, JOB_FAILURE or ABORTED and never
\* IN_PROGRESS; and it never leaves the loop on a poll that derives IN_PROGRESS.
C29_WaitEventuallyReturnsTerminal ==
    /\ (<>[]Settled) => <>(wait_pc = "returned")
    /\ [](wait_pc = "returned" =>
             wait_result.status \in {SUCCESS, ROW_FAILURE, JOB_FAILURE, ABORTED})
    /\ [][(wait_pc = "poll" /\ wait_pc' # "poll") =>
             /\ wait_result' = ParseJobState(wait_batches)
             /\ (wait_pc' = "returned") = ~(wait_result'.status = IN_PROGRESS)
             /\ (wait_pc' = "returned") = Settled]_vars

\* _wait_for_job has returned ROW_FAILURE for a job of two batches that were
\* queued or in progress when it was called: both have completed, one with a
\* record that failed.
C29_Witness ==
    /\ wait_pc = "returned"
    /\ wait_result.status = ROW_FAILURE
    /\ wait_result.total_row_errors = 1
    /\ Len(wait_batches) = 2
    /\ \A i \in 1..2 : wait_batches[i].state = "Completed"

----------------------------------------------------------------------------
(* Properties of the result channel of a run                                *)

\* The records of sobject s that the "results" reports still on the channel
\* announce, and the rows in error among them
PendingProcessed(s) ==
    SumSeq([i \in 1..Len(results_queue) |-> ProcessedOf(results_queue[i].step_results, s)])
PendingRowErrors(s) ==
    SumSeq([i \in 1..Len(results_queue) |-> RowErrorsOf(results_queue[i].step_results, s)])

\* The running totals of the template batch alone
TemplateTotals ==
    UpdateRunningTotalsFromLoadStepResults(NoCounts, TemplateStepResults(template_sets))

\* The running totals once the reports of all the sets counted as finished
\* have been added to those of the template batch, each once
TotalsOfFinishedSets ==
    UpdateRunningTotalsFromLoadStepResults(
        TemplateTotals, <<StepResult("Account", sets_finished, 0)>>)

\* C31: from the load of the template batch on, whatever the order in which
\* the workers finish or fail and the coordinator ticks, the running totals
\* together with the "results" reports still on the channel account for the
\* template batch and every set counted as finished, each exactly once, and
\* the "error" reports of failed sets add nothing; when the run has completed
\* normally the channel is empty and the totals are exactly those of the
\* template batch and of the sets finished.
C31_NoReportLostOrCountedTwice ==
    /\ run_pc \in {"while", "sleep", "draining", "done", "raised"} =>
          \A s \in Sobjects :
             /\ sobject_counts[s].successes + sobject_counts[s].errors
                    + PendingProcessed(s)
                = TotalsOfFinishedSets[s].successes + TotalsOfFinishedSets[s].errors
             /\ sobject_counts[s].errors + PendingRowErrors(s)
                = TotalsOfFinishedSets[s].errors
    /\ run_pc = "done" =>
          /\ results_queue = <<>>
          /\ sobject_counts = TotalsOfFinishedSets

\* A run has completed normally after tasks were loaded and one failed once
\* the status had last been reported: three reports or more went through
\* the channel.
C31_Witness ==
    /\ run_pc = "done"
    /\ reports_sent >= 3
    /\ sets_failed > 0
    /\ sets_finished > 0
    /\ sobject_counts["Account"].successes = template_sets + sets_finished

----------------------------------------------------------------------------
(* Progress of the run loop, under SpecRunFair                              *)

\* No work in flight while the total of the status held is below the target
IdleBelowTarget ==
    /\ run_pc \in {"while", "sleep"}
    /\ jobs = <<>>
    /\ ~PortionsDone(portions, TotalSetsWorkingOnOrUploaded(upload_status))

\* C32: in a run with a positive gap whose workers end every task they are
\* given, the coordinator leaves the loop for finish(), and finish() ends:
\* unless a set fails, a run in the loop reaches the draining phase, a run
\* that is draining reaches DONE whether sets fail or not, and the loop is
\* never for ever without work in flight and below its target.
C32_RunReachesDone ==
    /\ (run_pc = "template") ~> (run_pc = "done" \/ sets_failed > 0)
    /\ (run_pc \in {"while", "sleep"}) ~> (run_pc = "draining" \/ sets_failed > 0)
    /\ (run_pc = "draining") ~> (run_pc = "done")
    /\ <>[](~IdleBelowTarget \/ sets_failed > 0)

\* A run of three tasks or more, none of which failed, has reached DONE with
\* the target met by the sets finished.
C32_Witness ==
    /\ run_pc = "done"
    /\ sets_failed = 0
    /\ Len(portion_calls) >= 3
    /\ template_sets < portions.gap
    /\ template_sets + sets_finished >= portions.gap

----------------------------------------------------------------------------
(* Properties of the order of the results of a load                         *)

\* The rows of the batches posted so far, in the order of self.batch_ids
PostedRows ==
    Flatten([k \in 1..Len(up_batch_ids) |-> DataRows(up_org[up_batch_ids[k]])])

\* What the org was sent for the first k records of the load, in input order
SentUpTo(k) == [i \in 1..k |-> Sent(up_api, up_operation, up_records[i])]

\* C33: the batches of a Bulk load are posted in input order and
\* self.batch_ids lists them in posting order; on both backends the i-th
\* result get_results yields answers the i-th record given to load_records,
\* and once get_results is exhausted every record has its result.
C33_ResultsFollowUploadOrder ==
    /\ up_api = BULK =>
          /\ Len(PostedRows) <= Len(up_records)
          /\ PostedRows = SentUpTo(Len(PostedRows))
          /\ up_pc \in {"results", "done"} => Len(PostedRows) = Len(up_records)
    /\ up_api = REST =>
          /\ Len(up_results) = up_posted
          /\ [i \in 1..Len(up_results) |-> up_results[i].of] = SentUpTo(up_posted)
    /\ Len(up_yielded) <= Len(up_records)
    /\ [i \in 1..Len(up_yielded) |-> up_yielded[i].of] = SentUpTo(Len(up_yielded))
    /\ up_pc = "done" => Len(up_yielded) = Len(up_records)

\* get_results is exhausted after a Bulk load of three records in two
\* batches, the id of the second batch sorting before that of the first, and
\* the second record failed.
C33_Witness ==
    /\ up_pc = "done"
    /\ up_api = BULK
    /\ Len(up_records) = 3
    /\ up_batch_ids = <<BatchIdPool[2], BatchIdPool[1]>>
    /\ Len(up_yielded) = 3
    /\ ~up_yielded[2].success
    /\ up_yielded[3].success

----------------------------------------------------------------------------
(* Properties of the results of an operation against its job result         *)

\* The job result of the operation whose results were read
TalliedJobResult == IF rest_pc = "done" THEN rest_job_result ELSE sel_job_result

\* C34: once load_records of the REST backend, or select_records of either
\* backend, has returned and get_results has been read to its end, the number
\* of results yielded is job_result.records_processed and the number of them
\* that did not succeed is job_result.total_row_errors.
C34_ResultsAgreeWithTally ==
    got_pc = "done" =>
        /\ Len(got_results) = TalliedJobResult.records_processed
        /\ Cardinality({i \in 1..Len(got_results) : ~got_results[i].success})
              = TalliedJobResult.total_row_errors

\* get_results has yielded three results after a REST load of which one
\* record was rejected.
C34_Witness ==
    /\ got_pc = "done"
    /\ rest_pc = "done"
    /\ Len(got_results) = 3
    /\ rest_job_result.total_row_errors = 1

\* get_results has yielded the two selected records of a select on the Bulk
\* backend.
C34_WitnessSelect ==
    /\ got_pc = "done"
    /\ sel_pc = "done"
    /\ sel_backend = BULK
    /\ Len(got_results) = 2

----------------------------------------------------------------------------
(* Properties of the job result through the calls on an operation           *)

\* The call that has just been made
LastCall == life_calls'[Len(life_calls')]

\* C35 as stated: a job result that is set is never replaced, whatever is
\* called on the operation afterwards.
C35_JobResultNeverReplaced ==
    [][life_job_result # NoResult => life_job_result' = life_job_result]_vars

\* C35: end() of the Bulk backend closes the job every time, polls the job
\* exactly when no job result is set and then sets the result of the poll,
\* and leaves a job result that is set as it is; get_results, load_records of
\* the Bulk backend and end() of the REST backend change no job result; a job
\* result that is set is replaced only by a further call of select_records,
\* or of load_records on the REST backend.
C35_JobResultReplacedOnlyByAnotherOperation ==
    [][/\ (LastCall = "end" /\ life_api = BULK) =>
             /\ life_closed' = life_closed + 1
             /\ life_job_result = NoResult =>
                   /\ life_polls' = life_polls + 1
                   /\ life_job_result' \in PollOutcomes
             /\ life_job_result # NoResult =>
                   /\ life_polls' = life_polls
                   /\ life_job_result' = life_job_result
       /\ LastCall # "end" => life_closed' = life_closed /\ life_polls' = life_polls
       /\ life_job_result' # life_job_result =>
             \/ LastCall = "select_records"
             \/ LastCall = "load_records" /\ life_api = REST
             \/ LastCall = "end" /\ life_api = BULK /\ life_job_result = NoResult
      ]_vars

\* select_records found no candidate, then end() closed the job without
\* polling it and left the JOB_FAILURE result in place.
C35_Witness ==
    /\ life_api = BULK
    /\ life_calls = <<"select_records", "end">>
    /\ life_closed = 1
    /\ life_polls = 0
    /\ life_job_result.status = JOB_FAILURE

----------------------------------------------------------------------------
(* The clauses of the query generate_user_filter_query returns              *)

\* How many words of s are the keyword kw, in any letter case
CountWord(kw, s) == Cardinality({i \in 1..Len(s) : Upper(s[i]) = kw})

\* C36: the query generate_user_filter_query returns holds at most one LIMIT
\* clause and at most one OFFSET clause, and they are its last words, LIMIT
\* before OFFSET, wherever the filter clause had its own.
C36_OneLimitOneOffsetAtTheEnd ==
    (filter_pc = "returned" /\ filter_fn = "generate_user_filter_query") =>
        LET limits == CountWord("LIMIT", filter_ret)
            offsets == CountWord("OFFSET", filter_ret)
            tail == LastWords(filter_ret, 2 * (limits + offsets))
        IN  /\ limits <= 1
            /\ offsets <= 1
            /\ limits = 1 => tail[1] = "LIMIT" /\ IsNumeral(tail[2])
            /\ offsets = 1 => tail[Len(tail) - 1] = "OFFSET" /\ IsNumeral(tail[Len(tail)])

----------------------------------------------------------------------------
(* The data rows of the batches _batch yields                               *)

\* C37: every batch _batch yields holds at least one data row after its
\* header row, whatever the records, n and char_limit.
C37_NoHeaderOnlyBatch ==
    \A i \in 1..Len(yielded) : Len(DataRows(yielded[i])) >= 1

----------------------------------------------------------------------------
(* select_records without load records                                      *)

\* C38: select_records given no load record raises nothing, sends the org no
\* query, and ends with a job result of zero records processed, on both
\* backends.
C38_EmptySelectCompletes ==
    total_num_records = 0 =>
        /\ sel_pc # "raised"
        /\ select_responses = <<>> /\ user_responses = <<>>
        /\ sel_pc = "done" => sel_job_result.records_processed = 0

----------------------------------------------------------------------------
(* Properties of the constructors of the DML operations                     *)

\* C39: whatever operations are built from the caller's api_options, the
\* mapping of the caller keeps the items it had, every operation holds a
\* mapping of its own, and the batch_size of each operation is the one its
\* backend derives from the caller's items, whichever operations were built
\* before or after it.
C39_CallerOptionsUnchanged ==
    /\ heap[CallerRef] = given_options
    /\ \A k \in 1..Len(operations) :
          /\ operations[k].api_options # CallerRef
          /\ \A j \in 1..Len(operations) :
                j # k => operations[j].api_options # operations[k].api_options
          /\ heap[operations[k].api_options] =
                [given_options EXCEPT
                    !.batch_size = InitBatchSize(operations[k].api, given_options)]

\* A Bulk and then a REST operation were built from api_options without
\* batch_size: they hold 10,000 and 200, and the caller's mapping still has
\* no batch_size.
C39_Witness ==
    /\ Len(operations) = 2
    /\ operations[1].api = BULK /\ operations[2].api = REST
    /\ given_options.batch_size = Absent
    /\ heap[CallerRef].batch_size = Absent
    /\ heap[operations[1].api_options].batch_size = DEFAULT_BULK_BATCH_SIZE
    /\ heap[operations[2].api_options].batch_size = DEFAULT_REST_BATCH_SIZE

====
